---- MODULE Spec2Model ----
(***************************************************************************)
(* A state-machine model of sdf-to-usd-converter: one run of               *)
(* SdfToUsdConverter.convert() (mesh pre-conversion, stage building,       *)
(* material de-duplication) and the pure helpers of utils.py.              *)
(*                                                                         *)
(* Conventions                                                             *)
(*  - a Python str that the code inspects character by character (a name   *)
(*    given to sanitize_usd_name) is a sequence of one-character strings;  *)
(*  - a file-system path is a TLA+ string taken from a fixed table of      *)
(*    paths (MeshPaths, TexturePaths) with the os.path functions given as  *)
(*    tables over them;                                                    *)
(*  - an Optional[T] is a sequence of length 0 (None) or 1;                *)
(*  - a float is a fixed-point integer in thousandths (Milli).             *)
(***************************************************************************)
EXTENDS Integers, Sequences, FiniteSets, TLC

VARIABLES
    model,          \* the SdfModel returned by the parser (immutable input)
    opts,           \* include_collision / include_physics / merge_fixed_joints of the converter
    pc,             \* position of convert(): see PcValues
    queue,          \* sorted(mesh_paths) still to be visited by the pre-pass
    converted,      \* the local counter 'converted' of convert()
    mesh_cache,     \* MeshConverter._cache: source path -> usd path
    task,           \* the converter task being awaited: <<>> or <<[path, src, dst, ..]>>
    outstanding,    \* number of converter tasks created and not yet finished
    calls,          \* history: every finished external conversion, in order
    visited,        \* history: the paths the pre-pass handed to convert(), in order
    todo,           \* the build steps of UsdBuilder.build still to run
    stage,          \* the USD stage: prim path -> prim record
    material_cache, \* MaterialBuilder._material_cache: key -> material path
    mat_log,        \* history: every material creation, <<[key, path, mat]>>
    outfiles,       \* files present in <output_dir>/meshes: name -> source
    copies,         \* history: number of shutil.copy2 calls made by copy_texture
    built,          \* history: what each build step produced
    result,         \* what convert() gave its caller: "running", "returned", "raised"
    fn              \* the call under test of a pure helper: [name, arg, out]

vars == <<model, opts, pc, queue, converted, mesh_cache, task, outstanding,
          calls, visited, todo, stage, material_cache, mat_log, outfiles,
          copies, built, result, fn>>

runVars == <<model, opts, pc, queue, converted, mesh_cache, task, outstanding,
             calls, visited, todo, stage, material_cache, mat_log, outfiles,
             copies, built, result>>

-----------------------------------------------------------------------------
(* Bounds of the model *)

MaxItems == 2       \* visuals and collisions in a model document
NumLinks == 2       \* links in a model document
MaxNameLen == 3     \* characters in a name given to the sanitizer
MaxTokens == 7      \* whitespace-separated tokens in a pose text

-----------------------------------------------------------------------------
(* Generic helpers *)

SeqsUpTo(S, n) == UNION {[1..k -> S] : k \in 0..n}

Range(s) == {s[i] : i \in DOMAIN s}

Some(x) == <<x>>
None == <<>>

\* a function given as a set of pairs, extended or overwritten at k
Put(f, k, v) == [x \in DOMAIN f \cup {k} |-> IF x = k THEN v ELSE f[x]]

-----------------------------------------------------------------------------
(* utils.py: sanitize_usd_name *)

\* the characters a name is drawn from: a letter, a digit, the underscore,
\* the three replaced characters and one character that is none of these
Chars == {"a", "7", "_", "-", ".", " ", "$"}

\* str.isdigit and str.isalnum on the characters that occur in the model
Letters == {"a", "u", "n", "m", "e", "d", "j", "w", "o", "r", "l", "L", "k", "s"}
isdigit(c) == c = "7"
isalnum(c) == c \in Letters \cup {"7"}

\* str.replace("-", "_").replace(".", "_").replace(" ", "_")
replace3(name) ==
    [i \in DOMAIN name |-> IF name[i] \in {"-", ".", " "} THEN "_" ELSE name[i]]

keep_valid(c) == isalnum(c) \/ c = "_"

Unnamed == <<"_", "u", "n", "n", "a", "m", "e", "d">>

sanitize_usd_name(name) ==
    LET r1 == replace3(name)
        r2 == IF r1 # <<>> /\ isdigit(r1[1]) THEN <<"_">> \o r1 ELSE r1
        r3 == SelectSeq(r2, keep_valid)
    IN  IF r3 # <<>> THEN r3 ELSE Unnamed

-----------------------------------------------------------------------------
(* utils.py: Pose, parse_pose_string *)

Pose(x, y, z, roll, pitch, yaw) ==
    [x |-> x, y |-> y, z |-> z, roll |-> roll, pitch |-> pitch, yaw |-> yaw]

identity == Pose(0, 0, 0, 0, 0, 0)

\* pi in thousandths; math.radians on thousandths, rounded towards zero
PiMilli == 3142
radians(v) == IF v >= 0 THEN (v * PiMilli) \div 180000
                        ELSE -(((-v) * PiMilli) \div 180000)

\* a whitespace-separated token: text float() accepts (with its value in
\* thousandths) or text float() rejects with ValueError
Tokens == {[num |-> TRUE, val |-> 0], [num |-> TRUE, val |-> 90000],
           [num |-> FALSE, val |-> 0]}

\* parse_pose_string on the tokens of pose_str.strip().split(): the list
\* comprehension converts every token before the length is looked at
parse_pose_string(toks, degrees) ==
    IF \E i \in DOMAIN toks : ~toks[i].num
    THEN [raised |-> TRUE, pose |-> identity]
    ELSE IF Len(toks) # 6
    THEN [raised |-> FALSE, pose |-> identity]
    ELSE LET a(i) == IF degrees THEN radians(toks[i].val) ELSE toks[i].val
         IN  [raised |-> FALSE,
              pose |-> Pose(toks[1].val, toks[2].val, toks[3].val, a(4), a(5), a(6))]

-----------------------------------------------------------------------------
(* The file system of a run, as tables over a fixed set of paths *)

\* the resolved mesh paths a document may carry, in the order of Python's
\* sorted() on these strings ('.' < 'a' < 'c' < 'g', "/m" < "/n")
PathOrder == <<"/m/./a.dae", "/m/a.dae", "/m/c.txt", "/m/gone.dae", "/n/a.dae">>
MeshPaths == Range(PathOrder)

TexturePaths == {"/m/skin.png", "/n/wood.png", "/m/lost.png"}

\* the files that exist on disk; "/m/gone.dae" and "/m/lost.png" do not; the
\* two directories each hold a file "a.dae" and a file "skin.png"
Files == {"/m/a.dae", "/m/c.txt", "/n/a.dae", "/m/skin.png", "/n/wood.png",
          "/n/skin.png"}

\* os.path.abspath on an absolute path: normalisation of "." segments
abspath(p) == IF p = "/m/./a.dae" THEN "/m/a.dae" ELSE p

exists(p) == abspath(p) \in Files

dirname(p) == IF p \in {"/n/a.dae", "/n/wood.png", "/n/skin.png"} THEN "/n" ELSE "/m"

\* os.path.basename
basename(p) ==
    CASE p \in {"/m/./a.dae", "/m/a.dae", "/n/a.dae"} -> "a.dae"
      [] p = "/m/c.txt" -> "c.txt"
      [] p = "/m/gone.dae" -> "gone.dae"
      [] p \in {"/m/skin.png", "/n/skin.png"} -> "skin.png"
      [] p = "/n/wood.png" -> "wood.png"
      [] p = "/m/lost.png" -> "lost.png"

\* os.path.splitext(f)[0] and os.path.splitext(f)[1].lower() of a base name
stem(f) ==
    CASE f = "a.dae" -> "a" [] f = "c.txt" -> "c" [] f = "gone.dae" -> "gone"
      [] f = "skin.png" -> "skin" [] f = "wood.png" -> "wood" [] f = "lost.png" -> "lost"
ext(f) ==
    CASE f \in {"a.dae", "gone.dae"} -> ".dae" [] f = "c.txt" -> ".txt"
      [] f \in {"skin.png", "wood.png", "lost.png"} -> ".png"

\* os.listdir of a directory of the table
listdir(d) == {basename(f) : f \in {g \in Files : dirname(g) = d}}

\* the file a directory entry names
entry(d, f) == CHOOSE g \in Files : dirname(g) = d /\ basename(g) = f

-----------------------------------------------------------------------------
(* mesh_converter.py: MeshConverter *)

SUPPORTED_MESH_FORMATS == {".dae", ".stl", ".obj", ".fbx", ".gltf", ".glb"}
texture_exts == {".png", ".jpg", ".jpeg", ".tga", ".bmp", ".tiff", ".hdr"}

Values(f) == {f[k] : k \in DOMAIN f}

\* the name-collision loop of convert(): <base>.usd, then <base>_1.usd, ...
RECURSIVE free_name(_, _, _)
free_name(base, counter, taken) ==
    LET usd_path == IF counter = 0 THEN base \o ".usd"
                    ELSE base \o "_" \o ToString(counter) \o ".usd"
    IN  IF usd_path \in taken THEN free_name(base, counter + 1, taken)
        ELSE usd_path

\* _copy_adjacent_textures: every texture beside the mesh that is not yet in
\* the output directory is copied there
copy_adjacent_textures(mesh_path, out) ==
    LET d == dirname(mesh_path)
        new == {f \in listdir(d) : ext(f) \in texture_exts /\ f \notin DOMAIN out}
    IN  [f \in DOMAIN out \cup new |-> IF f \in new THEN entry(d, f) ELSE out[f]]

\* copy_texture: the path handed to the shader and the output directory
copy_texture(source_path, out) ==
    IF ~exists(source_path)
    THEN [dest |-> source_path, out |-> out, copied |-> 0]
    ELSE LET dest == basename(source_path)
         IN  IF dest \in DOMAIN out
             THEN [dest |-> dest, out |-> out, copied |-> 0]
             ELSE [dest |-> dest, out |-> Put(out, dest, source_path), copied |-> 1]

\* MeshConverter.convert up to the call of _run_conversion:
\*   "missing"      FileNotFoundError
\*   "hit"          the cached usd path is returned
\*   "unsupported"  RuntimeError, the extension is not supported
\*   "run"          _run_conversion(src, dst) is called
convert_begin(source_path, cache) ==
    LET src == abspath(source_path)
    IN  IF ~exists(src) THEN [kind |-> "missing", src |-> src, dst |-> ""]
        ELSE IF src \in DOMAIN cache
        THEN [kind |-> "hit", src |-> src, dst |-> cache[src]]
        ELSE IF ext(basename(src)) \notin SUPPORTED_MESH_FORMATS
        THEN [kind |-> "unsupported", src |-> src, dst |-> ""]
        ELSE [kind |-> "run", src |-> src,
              dst |-> free_name(stem(basename(src)), 0, Values(cache))]

\* what convert() does with the cache once _run_conversion has returned
cache_store(cache, src, dst) == Put(cache, src, dst)

-----------------------------------------------------------------------------
(* materials.py: MaterialBuilder *)

Pbr(m, r, a, ar) ==
    [metalness |-> m, roughness |-> r, albedo_map |-> a, albedo_map_resolved |-> ar]
Material(d, s, pbr) == [diffuse |-> d, specular |-> s, pbr |-> pbr]

\* a Python float of a material field: sign and magnitude in thousandths
\* (the values of the documents are multiples of a tenth); float("-0") is
\* the negative zero
Float(neg, milli) == [neg |-> neg, milli |-> milli]
Pos(milli) == Float(FALSE, milli)
NegZero == Float(TRUE, 0)

\* == on floats: the two zeros are equal
float_eq(x, y) == x.milli = y.milli /\ (x.milli = 0 \/ x.neg = y.neg)

\* str() of a float, as the f-strings of _material_hash format it
float_str(x) ==
    (IF x.neg THEN "-" ELSE "") \o ToString(x.milli \div 1000) \o "."
        \o ToString((x.milli % 1000) \div 100)

\* str() of a tuple of three floats
tuple_str(t) ==
    "(" \o float_str(t[1]) \o ", " \o float_str(t[2]) \o ", " \o float_str(t[3]) \o ")"

\* _material_hash: the parts joined by "|"; albedo_map_resolved is not a part
material_hash(mat) ==
    LET parts == "d=" \o tuple_str(mat.diffuse) \o "|s=" \o tuple_str(mat.specular)
    IN  IF mat.pbr # None
        THEN parts \o "|m=" \o float_str(mat.pbr[1].metalness)
                   \o "|r=" \o float_str(mat.pbr[1].roughness)
                   \o "|a=" \o mat.pbr[1].albedo_map
        ELSE parts
-----------------------------------------------------------------------------
(* parser.py: the intermediate model *)

Mesh(p) == [type |-> "mesh", resolved_path |-> p]
Box == [type |-> "box", resolved_path |-> ""]

\* a visual or a collision of link number 'link' (a collision has no material)
Item(link, kind, name, geometry, material) ==
    [link |-> link, kind |-> kind, name |-> name,
     geometry |-> geometry, material |-> material]

\* a float too large for thousandths: (-1)^neg * m * 10^e
Num(neg, m, e) == [neg |-> neg, m |-> m, e |-> e]
\* a value in thousandths as such a float
milli(v) == Num(v < 0, IF v < 0 THEN -v ELSE v, -3)

\* the dataclass SdfJointAxis with its defaults: the limits are -1e16, 1e16
SdfJointAxis ==
    [xyz |-> <<0, 0, 1000>>, lower_limit |-> Num(TRUE, 1, 16), upper_limit |-> Num(FALSE, 1, 16),
     damping |-> 0, stiffness |-> 0, friction |-> 0]

\* the dataclass SdfInertial of a link: mass, inertial pose and inertia terms
Inertial(mass, pose, inertia) == [mass |-> mass, pose |-> pose, inertia |-> inertia]

\* a joint with a pose and an axis
JointWith(name, type, parent, child, pose, axis) ==
    [name |-> name, type |-> type, parent |-> parent, child |-> child,
     pose |-> pose, axis |-> axis]

Joint(name, type, parent, child) ==
    JointWith(name, type, parent, child, identity, SdfJointAxis)

\* the links of a document without inertial element
NoInertials == [l \in 1..NumLinks |-> None]

\* names of the documents: the link names start with a digit, the model name
\* holds a '.', the second visual name a '-'
LinkName(l) == <<"7">> \o [k \in 1..l |-> "a"]
ModelName == <<"a", ".", "a">>
ItemName(i) == [k \in 1..i |-> "a"]
VisualNames == {<<"a">>, <<"a", "-", "7">>}

\* the material values of the documents: Grey, Red (Grey with another diffuse
\* colour), Skin (Grey with a pbr block and an albedo map that exists)
DefaultSpecular == <<Pos(100), Pos(100), Pos(100)>>
Grey == Material(<<Pos(800), Pos(800), Pos(800)>>, DefaultSpecular, None)
Red == Material(<<Pos(800), Pos(0), Pos(0)>>, DefaultSpecular, None)
\* <diffuse>0.8 -0 0</diffuse>
RedNegZero == Material(<<Pos(800), NegZero, Pos(0)>>, DefaultSpecular, None)
Skin == Material(<<Pos(800), Pos(800), Pos(800)>>, DefaultSpecular,
                 Some(Pbr(Pos(0), Pos(500), "model://bot/skin.png", "/m/skin.png")))

\* the joints of the documents: one revolute joint and one of a type the
\* builder does not know
BaseJoints ==
    <<Joint(<<"a", "_", "a">>, "revolute", LinkName(1), LinkName(NumLinks)),
      Joint(<<"a", "_", "7">>, "screw", LinkName(1), LinkName(NumLinks))>>

RECURSIVE Str(_)
\* a sequence of characters as a string
Str(s) == IF s = <<>> THEN "" ELSE s[1] \o Str(Tail(s))

-----------------------------------------------------------------------------
(* converter.py: the pre-conversion pass *)

IsMesh(it) == it.geometry.type = "mesh"

\* the items the pre-pass looks at: every visual and, with include_collision,
\* every collision
Included(m, o) ==
    {i \in DOMAIN m.items : m.items[i].kind = "visual" \/ o.include_collision}

\* lines 83-91: the set mesh_paths
mesh_paths(m, o) ==
    {m.items[i].geometry.resolved_path : i \in {j \in Included(m, o) : IsMesh(m.items[j])}}

\* the resolved mesh paths in document order, first occurrences only
RECURSIVE doc_order(_, _, _)
doc_order(m, o, i) ==
    IF i > Len(m.items) THEN <<>>
    ELSE LET rest == doc_order(m, o, i + 1)
             p == m.items[i].geometry.resolved_path
         IN  IF i \in Included(m, o) /\ IsMesh(m.items[i])
             THEN <<p>> \o SelectSeq(rest, LAMBDA q : q # p)
             ELSE rest

unsorted_mesh_paths(m, o) == doc_order(m, o, 1)

\* line 93: sorted(mesh_paths)
sorted_mesh_paths(m, o) == SelectSeq(PathOrder, LAMBDA p : p \in mesh_paths(m, o))

-----------------------------------------------------------------------------
(* usd_builder.py: the stage *)

NewPrim(type) ==
    [type |-> type, xformOps |-> 0, ref |-> None, material |-> None,
     apis |-> {}, surface |-> None, texture |-> None, body |-> None,
     mass |-> None, axis |-> None, localPos0 |-> None, lower |-> None,
     upper |-> None, drive |-> None]

\* <Schema>.Define / DefinePrim: creates the prim, or re-types an existing one
Define(st, path, type) ==
    IF path \in DOMAIN st THEN [st EXCEPT ![path].type = type]
    ELSE Put(st, path, NewPrim(type))

\* _set_xform, AddScaleOp: one more transform written on the prim
set_xform(st, path) == [st EXCEPT ![path].xformOps = @ + 1]

ApplyAPI(st, path, api) ==
    IF path \in DOMAIN st THEN [st EXCEPT ![path].apis = @ \cup {api}] ELSE st

model_path == "/" \o Str(sanitize_usd_name(ModelName))
looks_path == model_path \o "/Looks"
link_path(l) == model_path \o "/" \o Str(sanitize_usd_name(LinkName(l)))

\* the prim path _build_visual / _build_collision give to _build_geometry
item_path(it) ==
    link_path(it.link)
        \o (IF it.kind = "visual" THEN "/visuals/" ELSE "/collisions/")
        \o Str(sanitize_usd_name(it.name))

\* _build_box ... _build_capsule: the Xform of the item and the shape below it
build_primitive(st, prim_path, geometry) ==
    LET s1 == set_xform(Define(st, prim_path, "Xform"), prim_path)
    IN  CASE geometry.type = "box" ->
               LET cube_path == prim_path \o "/Box"
                   s2 == Define(s1, cube_path, "Cube")
                   s3 == Define(s2, cube_path, "Xform")
               IN  [stage |-> set_xform(s3, cube_path), path |-> Some(cube_path)]
          [] geometry.type = "cylinder" ->
               [stage |-> Define(s1, prim_path \o "/Cylinder", "Cylinder"),
                path |-> Some(prim_path \o "/Cylinder")]
          [] geometry.type = "sphere" ->
               [stage |-> Define(s1, prim_path \o "/Sphere", "Sphere"),
                path |-> Some(prim_path \o "/Sphere")]
          [] geometry.type = "capsule" ->
               [stage |-> Define(s1, prim_path \o "/Capsule", "Capsule"),
                path |-> Some(prim_path \o "/Capsule")]
          [] OTHER -> [stage |-> st, path |-> None]

\* _build_mesh_reference, lines 163-172: the Xform with its reference
mesh_node(st, prim_path, usd_mesh_path) ==
    LET s1 == set_xform(Define(st, prim_path, "Xform"), prim_path)
    IN  [s1 EXCEPT ![prim_path].ref = Some("./meshes/" \o usd_mesh_path)]

\* the builder's mutable state as one record
Builder == [stage |-> stage, material_cache |-> material_cache,
            mat_log |-> mat_log, outfiles |-> outfiles, copies |-> copies]

\* create_material, lines 40-76: a new material prim named after the visual;
\* _setup_texture copies the albedo map
new_material(b, mat, name_hint) ==
    LET mat_key == material_hash(mat)
        mat_name == Str(sanitize_usd_name(name_hint))
        mat_path == looks_path \o "/" \o mat_name
        s1 == Define(Define(b.stage, mat_path, "Material"),
                     mat_path \o "/PreviewSurface", "Shader")
        s2 == [s1 EXCEPT ![mat_path].surface = Some(mat_key)]
        textured == /\ mat.pbr # None
                    /\ mat.pbr[1].albedo_map_resolved # ""
                    /\ exists(mat.pbr[1].albedo_map_resolved)
        cp == copy_texture(mat.pbr[1].albedo_map_resolved, b.outfiles)
        s3 == IF textured
              THEN [Define(Define(s2, mat_path \o "/diffuse_texture", "Shader"),
                           mat_path \o "/uv_reader", "Shader")
                      EXCEPT ![mat_path].texture = Some(cp.dest)]
              ELSE s2
    IN  [b |-> [stage |-> s3,
                material_cache |-> Put(b.material_cache, mat_key, mat_path),
                mat_log |-> Append(b.mat_log, [key |-> mat_key, path |-> mat_path,
                                               mat |-> mat]),
                outfiles |-> IF textured THEN cp.out ELSE b.outfiles,
                copies |-> IF textured THEN b.copies + cp.copied ELSE b.copies],
         path |-> mat_path]

\* create_material without the cache lookup of lines 36-38
create_material_uncached(b, mat, name_hint) == new_material(b, mat, name_hint)

\* MaterialBuilder.create_material: the cached path, or a new material
create_material(b, mat, name_hint) ==
    IF material_hash(mat) \in DOMAIN b.material_cache
    THEN [b |-> b, path |-> b.material_cache[material_hash(mat)]]
    ELSE new_material(b, mat, name_hint)

\* MaterialBuilder.assign_material
assign_material(st, prim_path, material_path) ==
    IF prim_path \in DOMAIN st /\ material_path \in DOMAIN st
    THEN [st EXCEPT ![prim_path].material = Some(material_path)]
    ELSE st

\* _build_visual without the early return of lines 115-116
finish_visual_unguarded(b, it, geom_path) ==
    IF it.material = None THEN b
    ELSE LET cm == create_material(b, it.material[1], sanitize_usd_name(it.name))
         IN  IF geom_path = None THEN cm.b
             ELSE [cm.b EXCEPT
                     !.stage = assign_material(cm.b.stage, geom_path[1], cm.path)]

\* _build_visual after _build_geometry returned geom_path (lines 115-122)
finish_visual(b, it, geom_path) ==
    IF geom_path = None \/ it.material = None THEN b
    ELSE LET vis_name == sanitize_usd_name(it.name)
             cm == create_material(b, it.material[1], vis_name)
         IN  [cm.b EXCEPT !.stage = assign_material(cm.b.stage, geom_path[1], cm.path)]

\* _build_collision after _build_geometry returned geom_path (lines 133-134)
finish_collision(b, it, geom_path) ==
    IF geom_path = None THEN b
    ELSE [b EXCEPT !.stage = ApplyAPI(b.stage, geom_path[1], "CollisionAPI")]

finish_item(b, it, geom_path) ==
    IF it.kind = "visual" THEN finish_visual(b, it, geom_path)
    ELSE finish_collision(b, it, geom_path)

\* the material the geometry prim of an item is bound to, if any
Bound(st, geom_path) ==
    IF geom_path = None THEN None ELSE st[geom_path[1]].material

\* UsdBuilder.build, lines 62-69: the links in document order, each followed
\* by its visuals and (with include_collision) its collisions, then the joints
ItemsOf(m, l, kind) ==
    SelectSeq([i \in DOMAIN m.items |-> i],
              LAMBDA i : m.items[i].link = l /\ m.items[i].kind = kind)

StepsOf(ixs, op) == [k \in DOMAIN ixs |-> [op |-> op, ix |-> ixs[k]]]

RECURSIVE link_steps(_, _, _)
link_steps(m, o, l) ==
    IF l > NumLinks THEN <<>>
    ELSE <<[op |-> "link", ix |-> l]>>
         \o StepsOf(ItemsOf(m, l, "visual"), "item")
         \o (IF o.include_collision THEN StepsOf(ItemsOf(m, l, "collision"), "item")
             ELSE <<>>)
         \o link_steps(m, o, l + 1)

build_steps_merging(m, o) ==
    link_steps(m, o, 1)
    \o (IF o.include_physics
        THEN SelectSeq([j \in DOMAIN m.joints |-> [op |-> "joint", ix |-> j]],
                       LAMBDA t : ~(o.merge_fixed_joints /\ m.joints[t.ix].type = "fixed"))
        ELSE <<>>)
build_steps(m, o) ==
    link_steps(m, o, 1)
    \o (IF o.include_physics
        THEN [j \in DOMAIN m.joints |-> [op |-> "joint", ix |-> j]]
        ELSE <<>>)
-----------------------------------------------------------------------------
(* physics.py: PhysicsBuilder.create_joint *)

joint_prim_type_stopping_at_ball(type) ==
    CASE type = "revolute" -> "RevoluteJoint"
      [] type = "prismatic" -> "PrismaticJoint"
      [] type = "fixed" -> "FixedJoint"
      [] OTHER -> ""
joint_prim_type(type) ==
    CASE type = "revolute" -> "RevoluteJoint"
      [] type = "prismatic" -> "PrismaticJoint"
      [] type = "fixed" -> "FixedJoint"
      [] type = "ball" -> "FixedJoint"
      [] OTHER -> ""

\* abs(x) < 1e10
below_1e10(x) ==
    \/ x.m = 0
    \/ x.e < 1
    \/ x.e < 10 /\ x.m < 10 ^ (10 - x.e)

\* math.degrees: x * 180 / pi, with 180 / pi = 57.296
math_degrees(x) == Num(x.neg, x.m * 57296, x.e - 3)

\* _determine_axis
abs(v) == IF v < 0 THEN -v ELSE v
determine_axis_strict(xyz) ==
    LET ax == abs(xyz[1])
        ay == abs(xyz[2])
        az == abs(xyz[3])
    IN  IF ax > ay /\ ax > az THEN "X"
        ELSE IF ay > ax /\ ay > az THEN "Y"
        ELSE "Z"
determine_axis(xyz) ==
    LET ax == abs(xyz[1])
        ay == abs(xyz[2])
        az == abs(xyz[3])
    IN  IF ax >= ay /\ ax >= az THEN "X"
        ELSE IF ay >= ax /\ ay >= az THEN "Y"
        ELSE "Z"

\* Pose.position
position(pose) == <<pose.x, pose.y, pose.z>>

\* "if abs(limit) < 1e10: Create...LimitAttr().Set(limit)"
finite_limit(limit) == IF below_1e10(limit) THEN Some(limit) ELSE None

\* DriveAPI.Apply with the damping and, for a revolute joint, the stiffness
drive_of(kind, axis) ==
    IF axis.damping > 0
    THEN Some([kind |-> kind, damping |-> axis.damping,
               stiffness |-> IF kind = "angular" /\ axis.stiffness > 0
                             THEN Some(axis.stiffness) ELSE None])
    ELSE None

\* the attributes _create_revolute_joint, _create_prismatic_joint and
\* _create_fixed_joint write on the joint prim
joint_attrs(prim, joint, parent_path, child_path) ==
    LET common == [prim EXCEPT !.body = Some(<<parent_path, child_path>>),
                               !.localPos0 = Some(position(joint.pose))]
    IN  CASE joint.type = "revolute" ->
               [common EXCEPT !.axis = Some(determine_axis(joint.axis.xyz)),
                              !.lower = finite_limit(math_degrees(joint.axis.lower_limit)),
                              !.upper = finite_limit(math_degrees(joint.axis.upper_limit)),
                              !.drive = drive_of("angular", joint.axis),
                              !.apis = IF joint.axis.damping > 0
                                       THEN @ \cup {"DriveAPI"} ELSE @]
          [] joint.type = "prismatic" ->
               [common EXCEPT !.axis = Some(determine_axis(joint.axis.xyz)),
                              !.lower = finite_limit(joint.axis.lower_limit),
                              !.upper = finite_limit(joint.axis.upper_limit),
                              !.drive = drive_of("linear", joint.axis),
                              !.apis = IF joint.axis.damping > 0
                                       THEN @ \cup {"DriveAPI"} ELSE @]
          [] OTHER -> common

create_joint(st, joint) ==
    LET joint_path == model_path \o "/" \o Str(sanitize_usd_name(joint.name))
        parent_path == model_path \o "/" \o Str(sanitize_usd_name(joint.parent))
        child_path == model_path \o "/" \o Str(sanitize_usd_name(joint.child))
        t == joint_prim_type(joint.type)
    IN  IF t = "" THEN st
        ELSE [Define(st, joint_path, t) EXCEPT
                ![joint_path] = joint_attrs(@, joint, parent_path, child_path)]

\* apply_rigid_body: RigidBodyAPI, and MassAPI with the mass, the position of
\* the inertial pose and the diagonal of the inertia
diagonal_with_products(inertia) ==
    <<inertia.ixx + inertia.ixy, inertia.iyy + inertia.iyz, inertia.izz + inertia.ixz>>
diagonal(inertia) == <<inertia.ixx, inertia.iyy, inertia.izz>>

apply_rigid_body(st, path, inertial) ==
    IF path \notin DOMAIN st THEN st
    ELSE LET s1 == ApplyAPI(st, path, "RigidBodyAPI")
         IN  IF inertial # None /\ inertial[1].mass > 0
             THEN [ApplyAPI(s1, path, "MassAPI") EXCEPT
                     ![path].mass = Some([mass |-> inertial[1].mass,
                                          centerOfMass |-> position(inertial[1].pose),
                                          diagonalInertia |-> diagonal(inertial[1].inertia)])]
             ELSE s1

-----------------------------------------------------------------------------
(* The run of SdfToUsdConverter.convert() *)

\* converter.py line 98 and usd_builder.py line 159: "except Exception"
\* catches every exception MeshConverter.convert raises (the first operator
\* is a handler that names FileNotFoundError alone)
prepass_catches_only_missing(exc) == exc = "FileNotFoundError"
prepass_catches(exc) == exc \in {"FileNotFoundError", "RuntimeError"}
builder_catches(exc) == exc \in {"FileNotFoundError", "RuntimeError"}

\* the exception MeshConverter.convert raises for an outcome of convert_begin
raised_by(kind) == IF kind = "missing" THEN "FileNotFoundError" ELSE "RuntimeError"

\* where convert() stands while the converter task is pending: blocked in
\* run_until_complete until the task has finished
run_until_complete(caller) == "await"

NoFn == [name |-> "none", arg |-> <<>>, out |-> <<>>, done |-> TRUE]

\* the state in which convert() is entered with model m and options o
Entered(m, o) ==
    /\ model = m
    /\ opts = o
    /\ pc = "start"
    /\ queue = <<>>
    /\ converted = 0
    /\ mesh_cache = <<>>
    /\ task = None
    /\ outstanding = 0
    /\ calls = <<>>
    /\ visited = <<>>
    /\ todo = <<>>
    /\ stage = <<>>
    /\ material_cache = <<>>
    /\ mat_log = <<>>
    /\ outfiles = <<>>
    /\ copies = 0
    /\ built = <<>>
    /\ result = "running"

\* convert(), lines 58-91: the model is parsed, the output directory made,
\* the set of mesh paths collected and sorted
CollectMeshes ==
    /\ pc = "start"
    /\ queue' = sorted_mesh_paths(model, opts)
    /\ pc' = "pre"
    /\ UNCHANGED <<model, opts, converted, mesh_cache, task, outstanding, calls,
                   visited, todo, stage, material_cache, mat_log, outfiles,
                   copies, built, result, fn>>

\* convert(), lines 93-99: one iteration of the pre-pass, up to the point
\* where mesh_converter.convert() returns, raises or awaits the converter
PreConvert ==
    /\ pc = "pre"
    /\ queue # <<>>
    /\ LET mesh_path == Head(queue)
           r == convert_begin(mesh_path, mesh_cache)
       IN  /\ queue' = Tail(queue)
           /\ IF ~exists(mesh_path)
              THEN UNCHANGED <<visited, converted, task, outstanding, outfiles,
                               pc, result>>
              ELSE /\ visited' = Append(visited, mesh_path)
                   /\ IF r.kind = "run"
                      THEN /\ outfiles' = copy_adjacent_textures(r.src, outfiles)
                           /\ task' = Some([path |-> mesh_path, src |-> r.src,
                                            dst |-> r.dst, caller |-> "pre",
                                            ix |-> 0])
                           /\ outstanding' = outstanding + 1
                           /\ pc' = run_until_complete("pre")
                           /\ UNCHANGED <<converted, result>>
                      ELSE IF r.kind = "hit"
                      THEN /\ converted' = converted + 1
                           /\ UNCHANGED <<task, outstanding, outfiles, pc, result>>
                      ELSE IF prepass_catches(raised_by(r.kind))
                      THEN UNCHANGED <<converted, task, outstanding, outfiles,
                                       pc, result>>
                      ELSE /\ pc' = "done"
                           /\ result' = "raised"
                           /\ UNCHANGED <<converted, task, outstanding, outfiles>>
    /\ UNCHANGED <<model, opts, mesh_cache, calls, todo, stage, material_cache,
                   mat_log, copies, built, fn>>

\* the builder state after the item todo[1] got geom_path from _build_geometry
AfterItem(b, ix, geom_path, how) ==
    LET b2 == finish_item(b, model.items[ix], geom_path)
    IN  /\ stage' = b2.stage
        /\ material_cache' = b2.material_cache
        /\ mat_log' = b2.mat_log
        /\ outfiles' = b2.outfiles
        /\ copies' = b2.copies
        /\ built' = Put(built, ix, [node |-> geom_path, how |-> how,
                                    material |-> Bound(b2.stage, geom_path)])

\* the converter task finishes with success: the pre-pass counts it; the
\* builder goes on with the node of the item it was converting for
ConversionSucceeds ==
    /\ pc = "await"
    /\ task # None
    /\ LET t == task[1]
       IN  /\ calls' = Append(calls, [path |-> t.path, src |-> t.src, dst |-> t.dst,
                                      ok |-> TRUE, caller |-> t.caller,
                                      ix |-> t.ix])
           /\ mesh_cache' = cache_store(mesh_cache, t.src, t.dst)
           /\ outstanding' = outstanding - 1
           /\ task' = None
           /\ IF t.caller = "pre"
              THEN /\ converted' = converted + 1
                   /\ pc' = "pre"
                   /\ UNCHANGED <<stage, material_cache, mat_log, outfiles,
                                  copies, built>>
              ELSE /\ pc' = "build"
                   /\ UNCHANGED converted
                   /\ LET prim_path == item_path(model.items[t.ix])
                      IN  AfterItem([Builder EXCEPT
                                       !.stage = mesh_node(stage, prim_path, t.dst)],
                                    t.ix, Some(prim_path), "converted")
    /\ UNCHANGED <<model, opts, queue, visited, todo, result, fn>>

\* the converter task finishes with an error: RuntimeError, caught by the
\* pre-pass (line 98) or by _build_mesh_reference (line 159)
ConversionFails ==
    /\ pc = "await"
    /\ task # None
    /\ LET t == task[1]
       IN  /\ calls' = Append(calls, [path |-> t.path, src |-> t.src, dst |-> t.dst,
                                      ok |-> FALSE, caller |-> t.caller,
                                      ix |-> t.ix])
           /\ outstanding' = outstanding - 1
           /\ task' = None
           /\ IF t.caller = "pre"
              THEN /\ IF prepass_catches("RuntimeError")
                      THEN pc' = "pre" /\ UNCHANGED result
                      ELSE pc' = "done" /\ result' = "raised"
                   /\ UNCHANGED <<stage, material_cache, mat_log, outfiles,
                                  copies, built>>
              ELSE IF builder_catches("RuntimeError")
              THEN /\ pc' = "build"
                   /\ AfterItem(Builder, t.ix, None, "failed")
                   /\ UNCHANGED result
              ELSE /\ pc' = "done"
                   /\ result' = "raised"
                   /\ UNCHANGED <<stage, material_cache, mat_log, outfiles,
                                  copies, built>>
    /\ UNCHANGED <<model, opts, queue, converted, mesh_cache, visited, todo, fn>>

\* convert(), lines 101-113 and build(), lines 38-60: the pre-pass is over,
\* the stage is created with the model root, the Looks scope and (with
\* physics) the articulation root
BuildInit ==
    /\ pc = "pre"
    /\ queue = <<>>
    /\ LET s1 == set_xform(Define(Define(<<>>, model_path, ""), model_path, "Xform"),
                           model_path)
           s2 == Define(s1, looks_path, "Scope")
       IN  stage' = IF opts.include_physics
                    THEN ApplyAPI(s2, model_path, "ArticulationRootAPI") ELSE s2
    /\ todo' = build_steps(model, opts)
    /\ pc' = "build"
    /\ UNCHANGED <<model, opts, queue, converted, mesh_cache, task, outstanding,
                   calls, visited, material_cache, mat_log, outfiles, copies,
                   built, result, fn>>

\* _build_link, lines 78-99: the link prim, its rigid body and its scopes
BuildLink ==
    /\ pc = "build"
    /\ todo # <<>>
    /\ Head(todo).op = "link"
    /\ LET l == Head(todo).ix
           s1 == set_xform(Define(stage, link_path(l), "Xform"), link_path(l))
           s2 == IF opts.include_physics
                 THEN apply_rigid_body(s1, link_path(l), model.inertials[l]) ELSE s1
           s3 == IF ItemsOf(model, l, "visual") # <<>>
                 THEN Define(s2, link_path(l) \o "/visuals", "Scope") ELSE s2
           s4 == IF opts.include_collision /\ ItemsOf(model, l, "collision") # <<>>
                 THEN Define(s3, link_path(l) \o "/collisions", "Scope") ELSE s3
       IN  stage' = s4
    /\ todo' = Tail(todo)
    /\ UNCHANGED <<model, opts, pc, queue, converted, mesh_cache, task,
                   outstanding, calls, visited, material_cache, mat_log,
                   outfiles, copies, built, result, fn>>

\* _build_visual / _build_collision with _build_geometry: a primitive is
\* built at once; a mesh is looked up, refused, or handed to the converter
BuildItem ==
    /\ pc = "build"
    /\ todo # <<>>
    /\ Head(todo).op = "item"
    /\ LET ix == Head(todo).ix
           it == model.items[ix]
           prim_path == item_path(it)
           g == it.geometry
           r == convert_begin(g.resolved_path, mesh_cache)
       IN  IF g.type # "mesh"
           THEN LET bp == build_primitive(stage, prim_path, g)
                IN  /\ AfterItem([Builder EXCEPT !.stage = bp.stage], ix, bp.path,
                                 "primitive")
                    /\ UNCHANGED <<task, outstanding, pc, result>>
           ELSE IF g.resolved_path = "" \/ ~exists(g.resolved_path)
           THEN /\ AfterItem(Builder, ix, None, "missing")
                /\ UNCHANGED <<task, outstanding, pc, result>>
           ELSE IF r.kind = "hit"
           THEN /\ AfterItem([Builder EXCEPT
                                !.stage = mesh_node(stage, prim_path, r.dst)],
                             ix, Some(prim_path), "hit")
                /\ UNCHANGED <<task, outstanding, pc, result>>
           ELSE IF r.kind = "run"
           THEN /\ outfiles' = copy_adjacent_textures(r.src, outfiles)
                /\ task' = Some([path |-> g.resolved_path, src |-> r.src,
                                 dst |-> r.dst, caller |-> "build", ix |-> ix])
                /\ outstanding' = outstanding + 1
                /\ pc' = run_until_complete("build")
                /\ UNCHANGED <<stage, material_cache, mat_log, copies, built,
                               result>>
           ELSE IF builder_catches(raised_by(r.kind))
           THEN /\ AfterItem(Builder, ix, None, r.kind)
                /\ UNCHANGED <<task, outstanding, pc, result>>
           ELSE /\ pc' = "done"
                /\ result' = "raised"
                /\ UNCHANGED <<task, outstanding, stage, material_cache, mat_log,
                               outfiles, copies, built>>
    /\ todo' = Tail(todo)
    /\ UNCHANGED <<model, opts, queue, converted, mesh_cache, calls, visited, fn>>

\* build(), lines 67-69: one joint
CreateJoint ==
    /\ pc = "build"
    /\ todo # <<>>
    /\ Head(todo).op = "joint"
    /\ stage' = create_joint(stage, model.joints[Head(todo).ix])
    /\ todo' = Tail(todo)
    /\ UNCHANGED <<model, opts, pc, queue, converted, mesh_cache, task,
                   outstanding, calls, visited, material_cache, mat_log,
                   outfiles, copies, built, result, fn>>

\* build(), lines 71-74 and convert(), lines 115-127: the stage is saved, the
\* counts are logged and the output path returned
Save ==
    /\ pc = "build"
    /\ todo = <<>>
    /\ pc' = "done"
    /\ result' = "returned"
    /\ UNCHANGED <<model, opts, queue, converted, mesh_cache, task, outstanding,
                   calls, visited, todo, stage, material_cache, mat_log,
                   outfiles, copies, built, fn>>

Next ==
    \/ CollectMeshes
    \/ PreConvert
    \/ ConversionSucceeds
    \/ ConversionFails
    \/ BuildInit
    \/ BuildLink
    \/ BuildItem
    \/ CreateJoint
    \/ Save

\* the documents of Spec: up to MaxItems visuals and collisions of link 1,
\* named by position, each a box or a mesh, a visual with or without material
MeshGeometries == {Box} \cup {Mesh(p) : p \in MeshPaths}
MeshCores == [kind : {"visual", "collision"}, geometry : MeshGeometries,
              material : {None, Some(Grey)}]
MeshDoc(cs) ==
    [items |-> [i \in DOMAIN cs |->
                  Item(1, cs[i].kind, ItemName(i), cs[i].geometry,
                       IF cs[i].kind = "visual" THEN cs[i].material ELSE None)],
     joints |-> BaseJoints, inertials |-> NoInertials]

Init ==
    /\ \E cs \in SeqsUpTo(MeshCores, MaxItems) :
       \E ic \in BOOLEAN :
       \E ip \in BOOLEAN :
          Entered(MeshDoc(cs), [include_collision |-> ic, include_physics |-> ip,
                                   merge_fixed_joints |-> FALSE])
    /\ fn = NoFn

Spec == Init /\ [][Next]_vars

\* the documents of SpecMat: up to MaxItems visuals spread over the links,
\* named from VisualNames with sibling names distinct after sanitizing, each
\* a box or the mesh "/m/a.dae", with one of the material values or none
MatCores == [link : 1..NumLinks, name : VisualNames,
             geometry : {Box, Mesh("/m/a.dae")},
             material : {Some(Red), Some(RedNegZero), Some(Skin)}]
MatDoc(cs) ==
    [items |-> [i \in DOMAIN cs |->
                  Item(cs[i].link, "visual", cs[i].name, cs[i].geometry,
                       cs[i].material)],
     joints |-> BaseJoints, inertials |-> NoInertials]
SiblingsDistinct(m) ==
    \A i, j \in DOMAIN m.items : i # j => item_path(m.items[i]) # item_path(m.items[j])

\* the parser lists the visuals link by link
LinkByLink(cs) == \A i, j \in DOMAIN cs : i < j => cs[i].link <= cs[j].link

InitMat ==
    /\ \E cs \in SeqsUpTo(MatCores, MaxItems) :
          /\ LinkByLink(cs)
          /\ SiblingsDistinct(MatDoc(cs))
          /\ Entered(MatDoc(cs), [include_collision |-> TRUE, include_physics |-> TRUE,
                                  merge_fixed_joints |-> FALSE])
    /\ fn = NoFn

SpecMat == InitMat /\ [][Next]_vars

-----------------------------------------------------------------------------
(* The pure helpers of utils.py, each called once on an input of bounded size *)

\* the state of the run while a helper is called on its own
NoRun ==
    /\ model = [items |-> <<>>, joints |-> <<>>, inertials |-> NoInertials]
    /\ opts = [include_collision |-> TRUE, include_physics |-> TRUE,
               merge_fixed_joints |-> FALSE]
    /\ pc = "idle"
    /\ queue = <<>>
    /\ converted = 0
    /\ mesh_cache = <<>>
    /\ task = None
    /\ outstanding = 0
    /\ calls = <<>>
    /\ visited = <<>>
    /\ todo = <<>>
    /\ stage = <<>>
    /\ material_cache = <<>>
    /\ mat_log = <<>>
    /\ outfiles = <<>>
    /\ copies = 0
    /\ built = <<>>
    /\ result = "idle"

Call(name, arg) == [name |-> name, arg |-> arg, out |-> <<>>, done |-> FALSE]

InitSanitize ==
    /\ NoRun
    /\ \E name \in SeqsUpTo(Chars, MaxNameLen) : fn = Call("sanitize_usd_name", name)

CallSanitize ==
    /\ fn.name = "sanitize_usd_name"
    /\ ~fn.done
    /\ fn' = [fn EXCEPT !.out = sanitize_usd_name(fn.arg), !.done = TRUE]
    /\ UNCHANGED runVars

SpecSanitize == InitSanitize /\ [][CallSanitize]_vars

InitPose ==
    /\ NoRun
    /\ \E toks \in SeqsUpTo(Tokens, MaxTokens) :
       \E degrees \in BOOLEAN :
          fn = Call("parse_pose_string", [toks |-> toks, degrees |-> degrees])

CallParsePose ==
    /\ fn.name = "parse_pose_string"
    /\ ~fn.done
    /\ fn' = [fn EXCEPT !.out = parse_pose_string(fn.arg.toks, fn.arg.degrees),
                        !.done = TRUE]
    /\ UNCHANGED runVars

SpecPose == InitPose /\ [][CallParsePose]_vars

-----------------------------------------------------------------------------
(* Properties of the naming sanitizer and of parse_pose_string *)

ValidName(n) ==
    /\ n # <<>>
    /\ \A i \in DOMAIN n : isalnum(n[i]) \/ n[i] = "_"
    /\ ~isdigit(n[1])

\* C9: for every input string the sanitizer returns a valid node name: not
\* empty, made of alphanumeric characters and '_' only, and not starting with
\* a digit.
C9_SanitizerValid ==
    (fn.name = "sanitize_usd_name" /\ fn.done) => ValidName(fn.out)

\* C10: parse_pose_string never raises on a pose text whose number of
\* whitespace-separated tokens is not 6; it returns the identity pose.
C10_MalformedPoseIsIdentity ==
    (fn.name = "parse_pose_string" /\ fn.done /\ Len(fn.arg.toks) # 6)
        => (~fn.out.raised /\ fn.out.pose = identity)

-----------------------------------------------------------------------------
(* Properties of the mesh pre-conversion and of the build *)

Finished == pc = "done" /\ result = "returned"

CountCalls(P(_)) == Cardinality({i \in DOMAIN calls : P(calls[i])})

\* the files of a supported format that exist and that an included mesh names
ReferencedFiles ==
    {f \in {abspath(p) : p \in mesh_paths(model, opts)} :
        f \in Files /\ ext(basename(f)) \in SUPPORTED_MESH_FORMATS}

MeshItemsOf(f) ==
    {i \in DOMAIN built : /\ IsMesh(model.items[i])
                          /\ abspath(model.items[i].geometry.resolved_path) = f}

\* C1: in a finished run every existing (convertible) mesh file referenced by
\* an included visual or collision was handed to the external converter
\* exactly once, and all nodes built for it reference the same artifact.
C1_ConvertedExactlyOnce ==
    Finished =>
        \A f \in ReferencedFiles :
            /\ CountCalls(LAMBDA c : c.src = f) = 1
            /\ \A i, j \in MeshItemsOf(f) :
                  (built[i].node # None /\ built[j].node # None)
                     => stage[built[i].node[1]].ref = stage[built[j].node[1]].ref

\* C2: once the external converter has reported a failure for a mesh path,
\* it is not invoked again for that path in the same run.
C2_NoRetry ==
    \A i \in DOMAIN calls :
        ~calls[i].ok =>
            /\ \A j \in DOMAIN calls : j > i => calls[j].path # calls[i].path
            /\ task = None \/ task[1].path # calls[i].path

NonMeshBuilt ==
    \A i \in Included(model, opts) :
        ~IsMesh(model.items[i])
            => (i \in DOMAIN built /\ built[i].node # None
                /\ built[i].node[1] \in DOMAIN stage)

\* some step of convert() can be taken (the guards of the actions of Next)
CanStep ==
    \/ pc \in {"start", "pre"}
    \/ pc = "await" /\ task # None
    \/ pc = "build" /\ (todo = <<>> \/ Head(todo).op \in {"link", "item", "joint"})

\* C3: no mesh that is missing, of an unsupported format or refused by the
\* converter makes convert() raise; the run goes on to its end, where every
\* link, every non-mesh geometry and every joint the builder maps has its
\* prim and the output path is returned.
C3_MeshFailuresDoNotAbort ==
    /\ result # "raised"
    /\ pc # "done" => CanStep
    /\ pc = "done" =>
          /\ result = "returned"
          /\ \A l \in 1..NumLinks : link_path(l) \in DOMAIN stage
          /\ NonMeshBuilt
          /\ opts.include_physics =>
                \A j \in DOMAIN model.joints :
                    joint_prim_type(model.joints[j].type) # ""
                      => (model_path \o "/" \o Str(sanitize_usd_name(model.joints[j].name)))
                             \in DOMAIN stage

C3_Witness ==
    /\ Finished
    /\ \E i \in DOMAIN calls : ~calls[i].ok
    /\ \E i \in Included(model, opts) :
          /\ IsMesh(model.items[i])
          /\ ~exists(model.items[i].geometry.resolved_path)

\* == on tuples of three floats
triple_eq(s, t) == \A k \in 1..3 : float_eq(s[k], t[k])

\* two material values have equal key fields (equal as numbers and strings)
KeyFieldsEqual(m1, m2) ==
    /\ triple_eq(m1.diffuse, m2.diffuse)
    /\ triple_eq(m1.specular, m2.specular)
    /\ (m1.pbr = None) = (m2.pbr = None)
    /\ m1.pbr # None /\ m2.pbr # None =>
          /\ float_eq(m1.pbr[1].metalness, m2.pbr[1].metalness)
          /\ float_eq(m1.pbr[1].roughness, m2.pbr[1].roughness)
          /\ m1.pbr[1].albedo_map = m2.pbr[1].albedo_map

\* two material values have identical key fields: equal, and every zero of
\* the same sign
KeyFieldsIdentical(m1, m2) ==
    /\ m1.diffuse = m2.diffuse
    /\ m1.specular = m2.specular
    /\ (m1.pbr = None) = (m2.pbr = None)
    /\ m1.pbr # None /\ m2.pbr # None =>
          /\ m1.pbr[1].metalness = m2.pbr[1].metalness
          /\ m1.pbr[1].roughness = m2.pbr[1].roughness
          /\ m1.pbr[1].albedo_map = m2.pbr[1].albedo_map

\* the visuals built so far whose geometry prim was bound to a material
BoundVisuals == {i \in DOMAIN built : built[i].material # None}

\* the materials created so far (one entry of mat_log per creation) whose
\* value has key fields equal to those of the material of item i
CreationsFor(i, Same(_, _)) ==
    {k \in DOMAIN mat_log : Same(mat_log[k].mat, model.items[i].material[1])}

\* the materials created so far that have a texture to copy
TexturedCreations ==
    {k \in DOMAIN mat_log :
        /\ mat_log[k].mat.pbr # None
        /\ mat_log[k].mat.pbr[1].albedo_map_resolved # ""
        /\ exists(mat_log[k].mat.pbr[1].albedo_map_resolved)}

\* C4: visuals whose materials have equal key fields are bound to the same
\* material handle; the material is created, and its texture copied, once,
\* at the first occurrence; later occurrences create and copy nothing.
C4_EqualMaterialsShareHandle ==
    /\ \A i, j \in BoundVisuals :
          KeyFieldsEqual(model.items[i].material[1], model.items[j].material[1])
             => built[i].material = built[j].material
    /\ \A i \in BoundVisuals : Cardinality(CreationsFor(i, KeyFieldsEqual)) = 1
    /\ copies <= Cardinality(TexturedCreations)

\* C4 (amended): visuals whose materials have identical key fields (equal,
\* and written with the same sign where a number is zero) are bound to the
\* same material handle; the material is created, and its texture copied,
\* once, at the first occurrence; later occurrences create and copy nothing.
C4_IdenticalMaterialsShareHandle ==
    /\ \A i, j \in BoundVisuals :
          KeyFieldsIdentical(model.items[i].material[1], model.items[j].material[1])
             => built[i].material = built[j].material
    /\ \A i \in BoundVisuals : Cardinality(CreationsFor(i, KeyFieldsIdentical)) = 1
    /\ copies <= Cardinality(TexturedCreations)

C4_Witness ==
    /\ Finished
    /\ copies = 1
    /\ Len(mat_log) = 1
    /\ \E i, j \in BoundVisuals :
          /\ i # j
          /\ model.items[i].material = Some(Skin)
          /\ model.items[j].material = Some(Skin)
          /\ sanitize_usd_name(model.items[i].name) # sanitize_usd_name(model.items[j].name)

\* C5: two visuals whose materials differ in a key field are bound to
\* distinct material handles, whatever their names and owning links.
C5_DistinctMaterialsDistinctHandles ==
    \A i, j \in BoundVisuals :
        ~KeyFieldsEqual(model.items[i].material[1], model.items[j].material[1])
           => built[i].material # built[j].material

\* C6: the count 'converted' reported at the end of a run equals the number
\* of distinct mesh files the external converter converted successfully.
C6_ConvertedCount ==
    Finished =>
        converted = Cardinality({calls[i].src : i \in {j \in DOMAIN calls : calls[j].ok}})

\* the conversion that _build_mesh_reference asked for item i did not give
\* an artifact: the converter failed, or the format is not supported
ConversionFailedFor(i) ==
    LET p == model.items[i].geometry.resolved_path
    IN  \/ \E k \in DOMAIN calls :
              calls[k].caller = "build" /\ calls[k].ix = i /\ ~calls[k].ok
        \/ exists(p) /\ ext(basename(abspath(p))) \notin SUPPORTED_MESH_FORMATS

FailedMeshItems ==
    {i \in DOMAIN built :
        /\ IsMesh(model.items[i])
        /\ \/ ~exists(model.items[i].geometry.resolved_path)
           \/ ConversionFailedFor(i)}

MaterialPathOf(it) == looks_path \o "/" \o Str(sanitize_usd_name(it.name))

Rank(p) == CHOOSE i \in DOMAIN PathOrder : PathOrder[i] = p

\* C8: at most one conversion is outstanding at any time, convert() waits
\* for it, and the pre-pass visits the mesh paths in ascending sorted order.
C8_OneAtATimeInSortedOrder ==
    /\ outstanding <= 1
    /\ outstanding = 1 => (task # None /\ pc = "await")
    /\ \A i, j \in DOMAIN visited : i < j => Rank(visited[i]) < Rank(visited[j])

C8_Witness ==
    /\ Len(visited) = 2
    /\ CountCalls(LAMBDA c : c.caller = "pre") = 2
    /\ Len(model.items) = 2
    /\ IsMesh(model.items[1]) /\ IsMesh(model.items[2])
    /\ Rank(model.items[1].geometry.resolved_path)
          > Rank(model.items[2].geometry.resolved_path)

-----------------------------------------------------------------------------
(* parser.py: SdfParser._parse_pose *)

\* the values of the attribute 'degrees' that occur in the documents
DegreesAttrs == {"true", "True", "TRUE", "false", "1"}

\* str.lower on these values
lower(a) == IF a \in {"true", "True", "TRUE"} THEN "true" ELSE a

\* a <pose> element: its text (None for <pose/>, else the tokens of the
\* text) and its attribute 'degrees' (None when it has none)
PoseElem(text, degrees) == [text |-> text, degrees |-> degrees]

\* elem.get("degrees", "false")
get_degrees(elem) == IF elem.degrees = None THEN "false" ELSE elem.degrees[1]

\* _parse_pose that compares the attribute with "true" as it is written
parse_pose_case_sensitive(elem) ==
    IF elem.text = None THEN [raised |-> FALSE, pose |-> identity]
    ELSE parse_pose_string(elem.text[1], get_degrees(elem) = "true")

\* SdfParser._parse_pose
parse_pose(elem) ==
    IF elem.text = None THEN [raised |-> FALSE, pose |-> identity]
    ELSE parse_pose_string(elem.text[1], lower(get_degrees(elem)) = "true")

PoseElems ==
    {PoseElem(t, d) : t \in {None} \cup {Some(toks) : toks \in SeqsUpTo(Tokens, MaxTokens)},
                      d \in {None} \cup {Some(a) : a \in DegreesAttrs}}

InitPoseElem ==
    /\ NoRun
    /\ \E elem \in PoseElems : fn = Call("_parse_pose", elem)

CallParsePoseElem ==
    /\ fn.name = "_parse_pose"
    /\ ~fn.done
    /\ fn' = [fn EXCEPT !.out = parse_pose(fn.arg), !.done = TRUE]
    /\ UNCHANGED runVars

SpecPoseElem == InitPoseElem /\ [][CallParsePoseElem]_vars

\* the element holds six numbers
SixNumbers(elem) ==
    /\ elem.text # None
    /\ Len(elem.text[1]) = 6
    /\ \A i \in 1..6 : elem.text[1][i].num

\* the element carries the degrees flag / carries none
Flagged(elem) == elem.degrees # None /\ elem.degrees[1] \in {"true", "True", "TRUE"}
Unflagged(elem) == elem.degrees = None \/ elem.degrees[1] = "false"

\* degrees to radians on thousandths: v * pi / 180
InRadians(v) == IF v >= 0 THEN (v * 3142) \div 180000 ELSE -(((-v) * 3142) \div 180000)

\* C11: the pose parsed from a 6-number <pose> element has the three position
\* numbers unchanged; its roll, pitch and yaw are the numbers converted from
\* degrees to radians when the element carries the degrees flag, and the
\* numbers unchanged when it carries none.
C11_PoseAnglesInRadians ==
    (fn.name = "_parse_pose" /\ fn.done /\ SixNumbers(fn.arg)) =>
        LET t == fn.arg.text[1]
            p == fn.out.pose
        IN  /\ ~fn.out.raised
            /\ p.x = t[1].val /\ p.y = t[2].val /\ p.z = t[3].val
            /\ Flagged(fn.arg) =>
                  /\ p.roll = InRadians(t[4].val)
                  /\ p.pitch = InRadians(t[5].val)
                  /\ p.yaw = InRadians(t[6].val)
            /\ Unflagged(fn.arg) =>
                  /\ p.roll = t[4].val /\ p.pitch = t[5].val /\ p.yaw = t[6].val

C11_Witness ==
    /\ fn.name = "_parse_pose" /\ fn.done /\ SixNumbers(fn.arg)
    /\ fn.arg.degrees = Some("True")
    /\ fn.arg.text[1][4].val = 90000
    /\ fn.out.pose.roll = 1571
    /\ fn.out.pose.x = 90000

-----------------------------------------------------------------------------
(* utils.py: resolve_model_uri *)

MaxUriLen == 5      \* pieces in a URI given to the resolver

\* a URI or a path is a sequence of pieces: the scheme words "model:" and
\* "file:", the separator "/" and two file or directory names
UriPieces == {"model:", "file:", "/", "x", "y"}

\* the directory of the model document: os.path.dirname(os.path.abspath(..))
ModelDir == <<"/", "d">>

\* str.startswith
startswith(s, prefix) ==
    Len(s) >= Len(prefix) /\ SubSeq(s, 1, Len(prefix)) = prefix

\* s[n:]
drop(s, n) == SubSeq(s, n + 1, Len(s))

\* os.path.isabs
isabs(path) == startswith(path, <<"/">>)

\* os.path.join(a, b): an absolute b discards a
join(a, b) ==
    IF isabs(b) THEN b
    ELSE IF a = <<>> \/ a[Len(a)] = "/" THEN a \o b
    ELSE a \o <<"/">> \o b

\* str.split("/", 1): the parts before and after the first "/"
split1(s) ==
    IF \E k \in DOMAIN s : s[k] = "/"
    THEN LET k == CHOOSE k \in DOMAIN s :
                     s[k] = "/" /\ \A j \in 1..(k - 1) : s[j] # "/"
         IN  <<SubSeq(s, 1, k - 1), drop(s, k)>>
    ELSE <<s>>

ModelScheme == <<"model:", "/", "/">>
FileScheme == <<"file:", "/", "/">>

\* resolve_model_uri
resolve_model_uri(uri, model_dir) ==
    IF startswith(uri, ModelScheme)
    THEN LET parts == split1(drop(uri, Len(ModelScheme)))
         IN  IF Len(parts) > 1 THEN join(model_dir, parts[2]) ELSE model_dir
    ELSE IF startswith(uri, FileScheme) THEN drop(uri, Len(FileScheme))
    ELSE IF isabs(uri) THEN uri
    ELSE join(model_dir, uri)

InitResolve ==
    /\ NoRun
    /\ \E uri \in SeqsUpTo(UriPieces, MaxUriLen) :
          fn = Call("resolve_model_uri", [uri |-> uri, model_dir |-> ModelDir])

CallResolve ==
    /\ fn.name = "resolve_model_uri"
    /\ ~fn.done
    /\ fn' = [fn EXCEPT !.out = resolve_model_uri(fn.arg.uri, fn.arg.model_dir),
                        !.done = TRUE]
    /\ UNCHANGED runVars

SpecResolve == InitResolve /\ [][CallResolve]_vars

\* uri is model://<name>/<rest> with these <name> and <rest>
IsModelUri(uri, name, rest) ==
    /\ uri = ModelScheme \o name \o <<"/">> \o rest
    /\ \A k \in DOMAIN name : name[k] # "/"

\* the path model_dir/<rest>
Under(model_dir, rest) == model_dir \o <<"/">> \o rest

\* C12: resolve maps model://<name>/<rest> to model_dir/<rest> whatever
\* <name> and <rest> are, file://<abs> to <abs>, an absolute path to itself
\* and any other (relative) path to model_dir/<uri>.
C12_ResolveForms ==
    (fn.name = "resolve_model_uri" /\ fn.done) =>
        LET uri == fn.arg.uri
            dir == fn.arg.model_dir
        IN  /\ \A n \in 0..(Len(uri) - 4) :
                  IsModelUri(uri, SubSeq(uri, 4, 3 + n), drop(uri, 4 + n))
                     => fn.out = Under(dir, drop(uri, 4 + n))
            /\ (startswith(uri, FileScheme) /\ isabs(drop(uri, 3)))
                  => fn.out = drop(uri, 3)
            /\ isabs(uri) => fn.out = uri
            /\ (~startswith(uri, ModelScheme) /\ ~startswith(uri, FileScheme) /\ ~isabs(uri))
                  => fn.out = Under(dir, uri)

-----------------------------------------------------------------------------
(* parser.py: the document and SdfParser *)

\* an xml.etree element: tag, attributes (a function from attribute names),
\* text (None, or the pieces of the text: whitespace-separated words, and
\* for a uri the pieces of the path) and child elements in document order
Elem(tag, attrs, text, children) ==
    [tag |-> tag, attrs |-> attrs, text |-> text, children |-> children]

\* Element.get(key, default)
get(elem, key, default) ==
    IF key \in DOMAIN elem.attrs THEN elem.attrs[key] ELSE default

\* Element.findall(tag): the direct children with that tag, in document order
findall(elem, tag) == SelectSeq(elem.children, LAMBDA c : c.tag = tag)

\* Element.find(tag): the first such child, or None
find(elem, tag) ==
    IF findall(elem, tag) = <<>> THEN None ELSE Some(findall(elem, tag)[1])

\* the outcome of a call: an exception raised, or a value returned
Raised == [raised |-> TRUE, val |-> <<>>]
Ok(v) == [raised |-> FALSE, val |-> v]

\* the words float() accepts, with their values in thousandths
NumberWords == {"0", "1", "2", "0.5", "90"}
float(w) == CASE w = "0" -> 0
              [] w = "1" -> 1000
              [] w = "2" -> 2000
              [] w = "0.5" -> 500
              [] w = "90" -> 90000

\* c = elem.find(tag); if c is not None: x.field = float(c.text)
\* float raises TypeError for text None and ValueError for a text that is
\* not one number
child_float(elem, tag, default) ==
    LET c == find(elem, tag)
    IN  IF c = None THEN Ok(default)
        ELSE IF c[1].text = None \/ Len(c[1].text[1]) # 1
                \/ c[1].text[1][1] \notin NumberWords
        THEN Raised
        ELSE Ok(float(c[1].text[1][1]))

\* c = elem.find(tag); if c is not None:
\*     parts = [float(v) for v in c.text.strip().split()]
\*     x.field = tuple(parts[:3]) if len(parts) >= 3 else default
\* strip raises AttributeError for text None, float ValueError for a word
\* that is not a number
child_triple(elem, tag, default) ==
    LET c == find(elem, tag)
    IN  IF c = None THEN Ok(default)
        ELSE IF c[1].text = None \/ \E k \in DOMAIN c[1].text[1] : c[1].text[1][k] \notin NumberWords
        THEN Raised
        ELSE IF Len(c[1].text[1]) >= 3
        THEN Ok(<<float(c[1].text[1][1]), float(c[1].text[1][2]), float(c[1].text[1][3])>>)
        ELSE Ok(default)

\* c = elem.find(tag); if c is not None: x.field = c.text.strip()
child_text(elem, tag) ==
    LET c == find(elem, tag)
    IN  IF c = None THEN Ok(<<>>)
        ELSE IF c[1].text = None THEN Raised
        ELSE Ok(c[1].text[1])

\* pose_elem = elem.find("pose"); if pose_elem is not None:
\*     x.pose = self._parse_pose(pose_elem)
\* the words of the text are the tokens parse_pose_string works on
child_pose(elem) ==
    LET c == find(elem, "pose")
        token(w) == [num |-> w \in NumberWords,
                     val |-> IF w \in NumberWords THEN float(w) ELSE 0]
        out == parse_pose(PoseElem(IF c[1].text = None THEN None
                                   ELSE Some([k \in DOMAIN c[1].text[1] |-> token(c[1].text[1][k])]),
                                   IF "degrees" \in DOMAIN c[1].attrs
                                   THEN Some(c[1].attrs["degrees"]) ELSE None))
    IN  IF c = None THEN Ok(identity)
        ELSE IF out.raised THEN Raised
        ELSE Ok(out.pose)

\* the dataclasses of parser.py whose defaults the parser leaves in place
SdfGeometry ==
    [mesh |-> None, box |-> None, cylinder |-> None, sphere |-> None, capsule |-> None]
SdfInertia == [ixx |-> 0, ixy |-> 0, ixz |-> 0, iyy |-> 0, iyz |-> 0, izz |-> 0]

\* _parse_geometry: the first of mesh, box, cylinder, sphere, capsule that
\* the element holds; a geometry with no variant when it holds none of them
parse_geometry(elem, model_dir) ==
    LET shape(tag) == find(elem, tag)[1]
        uri == child_text(shape("mesh"), "uri")
        scale == child_triple(shape("mesh"), "scale", <<1000, 1000, 1000>>)
        size == child_triple(shape("box"), "size", <<1000, 1000, 1000>>)
        radius(tag) == child_float(shape(tag), "radius", 500)
        length(tag) == child_float(shape(tag), "length", 1000)
    IN  IF find(elem, "mesh") # None
        THEN IF uri.raised \/ scale.raised THEN Raised
             ELSE Ok([SdfGeometry EXCEPT !.mesh =
                        Some([uri |-> uri.val,
                              resolved_path |->
                                  IF find(shape("mesh"), "uri") = None THEN <<>>
                                  ELSE resolve_model_uri(uri.val, model_dir),
                              scale |-> scale.val])])
        ELSE IF find(elem, "box") # None
        THEN IF size.raised THEN Raised
             ELSE Ok([SdfGeometry EXCEPT !.box = Some([size |-> size.val])])
        ELSE IF find(elem, "cylinder") # None
        THEN IF radius("cylinder").raised \/ length("cylinder").raised THEN Raised
             ELSE Ok([SdfGeometry EXCEPT !.cylinder =
                        Some([radius |-> radius("cylinder").val,
                              length |-> length("cylinder").val])])
        ELSE IF find(elem, "sphere") # None
        THEN IF radius("sphere").raised THEN Raised
             ELSE Ok([SdfGeometry EXCEPT !.sphere = Some([radius |-> radius("sphere").val])])
        ELSE IF find(elem, "capsule") # None
        THEN IF radius("capsule").raised \/ length("capsule").raised THEN Raised
             ELSE Ok([SdfGeometry EXCEPT !.capsule =
                        Some([radius |-> radius("capsule").val,
                              length |-> length("capsule").val])])
        ELSE Ok(SdfGeometry)

\* _parse_material
parse_material(elem, model_dir) ==
    LET diffuse == child_triple(elem, "diffuse", <<800, 800, 800>>)
        specular == child_triple(elem, "specular", <<100, 100, 100>>)
        has_metal == find(elem, "pbr") # None /\ find(find(elem, "pbr")[1], "metal") # None
        metal == find(find(elem, "pbr")[1], "metal")[1]
        metalness == child_float(metal, "metalness", 0)
        roughness == child_float(metal, "roughness", 500)
        albedo == child_text(metal, "albedo_map")
    IN  IF diffuse.raised \/ specular.raised THEN Raised
        ELSE IF ~has_metal
        THEN Ok([diffuse |-> diffuse.val, specular |-> specular.val, pbr |-> None])
        ELSE IF metalness.raised \/ roughness.raised \/ albedo.raised THEN Raised
        ELSE Ok([diffuse |-> diffuse.val, specular |-> specular.val,
                 pbr |-> Some([metalness |-> metalness.val,
                               roughness |-> roughness.val,
                               albedo_map |-> albedo.val,
                               albedo_map_resolved |->
                                   IF find(metal, "albedo_map") = None THEN <<>>
                                   ELSE resolve_model_uri(albedo.val, model_dir)])])

\* x = elem.find(tag); if x is not None: field = parse(x): the field is None
\* without such a child (found), and else what parsing the child gives
optional(found, parsed) ==
    IF found = None THEN Ok(None)
    ELSE IF parsed.raised THEN Raised
    ELSE Ok(Some(parsed.val))

\* _parse_visual
parse_visual(elem, model_dir) ==
    LET pose == child_pose(elem)
        geometry == optional(find(elem, "geometry"),
                             parse_geometry(find(elem, "geometry")[1], model_dir))
        material == optional(find(elem, "material"),
                             parse_material(find(elem, "material")[1], model_dir))
    IN  IF pose.raised \/ geometry.raised \/ material.raised THEN Raised
        ELSE Ok([name |-> get(elem, "name", "visual"), pose |-> pose.val,
                 geometry |-> geometry.val, material |-> material.val])

\* _parse_collision
parse_collision(elem, model_dir) ==
    LET pose == child_pose(elem)
        geometry == optional(find(elem, "geometry"),
                             parse_geometry(find(elem, "geometry")[1], model_dir))
    IN  IF pose.raised \/ geometry.raised THEN Raised
        ELSE Ok([name |-> get(elem, "name", "collision"), pose |-> pose.val,
                 geometry |-> geometry.val])

\* _parse_inertia
InertiaTags == {"ixx", "ixy", "ixz", "iyy", "iyz", "izz"}
parse_inertia(elem) ==
    IF \E tag \in InertiaTags : child_float(elem, tag, 0).raised THEN Raised
    ELSE Ok([tag \in InertiaTags |-> child_float(elem, tag, 0).val])

\* _parse_inertial
parse_inertial(elem) ==
    LET mass == child_float(elem, "mass", 0)
        pose == child_pose(elem)
        inertia == optional(find(elem, "inertia"), parse_inertia(find(elem, "inertia")[1]))
    IN  IF mass.raised \/ pose.raised \/ inertia.raised THEN Raised
        ELSE Ok([mass |-> mass.val, pose |-> pose.val,
                 inertia |-> IF inertia.val = None THEN SdfInertia ELSE inertia.val[1]])

\* for x_elem in elem.findall(tag): ...append(parse(x_elem)): the outcomes of
\* parsing each element, in document order
each(parsed) ==
    IF \E k \in DOMAIN parsed : parsed[k].raised THEN Raised
    ELSE Ok([k \in DOMAIN parsed |-> parsed[k].val])

\* "if visual.geometry: link.visuals.append(visual)": None is false, and a
\* dataclass instance is true whatever its fields
kept(parsed) == SelectSeq(parsed, LAMBDA v : v.geometry # None)

\* _parse_link
parse_link(elem, model_dir) ==
    LET pose == child_pose(elem)
        inertial == optional(find(elem, "inertial"), parse_inertial(find(elem, "inertial")[1]))
        visuals == each([k \in DOMAIN findall(elem, "visual") |->
                           parse_visual(findall(elem, "visual")[k], model_dir)])
        collisions == each([k \in DOMAIN findall(elem, "collision") |->
                              parse_collision(findall(elem, "collision")[k], model_dir)])
    IN  IF pose.raised \/ inertial.raised \/ visuals.raised \/ collisions.raised
        THEN Raised
        ELSE Ok([name |-> get(elem, "name", "link"), pose |-> pose.val,
                 inertial |-> inertial.val,
                 visuals |-> kept(visuals.val),
                 collisions |-> kept(collisions.val)])

\* _parse_joint_axis
parse_joint_axis(elem) ==
    LET xyz == child_triple(elem, "xyz", <<0, 0, 1000>>)
        limit == find(elem, "limit")
        dynamics == find(elem, "dynamics")
        bound(tag, default) ==
            IF limit = None \/ find(limit[1], tag) = None THEN Ok(default)
            ELSE IF child_float(limit[1], tag, 0).raised THEN Raised
            ELSE Ok(milli(child_float(limit[1], tag, 0).val))
        lower_limit == bound("lower", SdfJointAxis.lower_limit)
        upper_limit == bound("upper", SdfJointAxis.upper_limit)
        dynamic(tag) == IF dynamics = None THEN Ok(0) ELSE child_float(dynamics[1], tag, 0)
    IN  IF xyz.raised \/ lower_limit.raised \/ upper_limit.raised
           \/ \E tag \in {"damping", "stiffness", "friction"} : dynamic(tag).raised
        THEN Raised
        ELSE Ok([xyz |-> xyz.val,
                 lower_limit |-> lower_limit.val, upper_limit |-> upper_limit.val,
                 damping |-> dynamic("damping").val,
                 stiffness |-> dynamic("stiffness").val,
                 friction |-> dynamic("friction").val])

\* _parse_joint; parent and child hold one word, the name of a link
parse_joint(elem) ==
    LET pose == child_pose(elem)
        parent == child_text(elem, "parent")
        child == child_text(elem, "child")
        axis == optional(find(elem, "axis"), parse_joint_axis(find(elem, "axis")[1]))
    IN  IF pose.raised \/ parent.raised \/ child.raised \/ axis.raised THEN Raised
        ELSE Ok([name |-> get(elem, "name", "joint"),
                 type |-> get(elem, "type", "revolute"),
                 parent |-> parent.val, child |-> child.val, pose |-> pose.val,
                 axis |-> IF axis.val = None THEN SdfJointAxis ELSE axis.val[1]])

\* for link_elem in elem.findall("link"): model.links.append(...)
links_of_reversed(elem, model_dir) ==
    LET ls == each([k \in DOMAIN findall(elem, "link") |->
            parse_link(findall(elem, "link")[k], model_dir)])
    IN  IF ls.raised THEN Raised
        ELSE Ok([k \in DOMAIN ls.val |-> ls.val[Len(ls.val) + 1 - k]])
links_of(elem, model_dir) == each([k \in DOMAIN findall(elem, "link") |->
            parse_link(findall(elem, "link")[k], model_dir)])

\* _parse_model
parse_model(elem, model_dir) ==
    LET pose == child_pose(elem)
        links == links_of(elem, model_dir)
        joints == each([k \in DOMAIN findall(elem, "joint") |-> parse_joint(findall(elem, "joint")[k])])
    IN  IF pose.raised \/ links.raised \/ joints.raised THEN Raised
        ELSE Ok([name |-> get(elem, "name", "model"), pose |-> pose.val,
                 links |-> links.val, joints |-> joints.val])

\* SdfParser.parse on a document: ET.parse raises for an input it cannot
\* read; the model element is the root's first model child, or the root
model_elem(root) ==
    IF find(root, "model") # None THEN find(root, "model")
    ELSE IF root.tag = "model" THEN Some(root)
    ELSE None

parse(doc, model_dir) ==
    IF ~doc.readable \/ model_elem(doc.root) = None THEN Raised
    ELSE parse_model(model_elem(doc.root)[1], model_dir)

-----------------------------------------------------------------------------
(* The documents given to the parser *)

MaxChildren == 3    \* child elements of the element a family of documents varies

\* the documents: six families, each varying one element of the document
\*  - one link with one visual or collision whose geometry element holds any
\*    sequence of the five shapes and of a shape the parser does not know,
\*    the mesh with one of the URIs model://x/y, file:///x, file://x, /x, x;
\*  - one link holding any sequence of visuals and collisions, with and
\*    without geometry, and inertials;
\*  - a model holding any sequence of two links, two joints (one with type,
\*    parent, child and axis, one with a child alone) and a pose in degrees;
\*  - one link whose inertial holds any sequence of mass, pose and inertia
\*    elements with no text, blank text, one number, a word that is not a
\*    number, or three numbers;
\*  - other elements whose text the parser reads: uri, size, diffuse,
\*    albedo_map, parent, limit;
\*  - readable and unreadable inputs with the model element as the root, as
\*    a child of the root, deeper, or missing
Docs ==
    LET Leaf(tag, text) == Elem(tag, <<>>, text, <<>>)
        Node(tag, children) == Elem(tag, <<>>, None, children)
        Named(tag, n, children) == Elem(tag, [a \in {"name"} |-> n], None, children)
        SdfRoot(m) == [readable |-> TRUE, root |-> Node("sdf", <<m>>)]
        OneLink(children) == SdfRoot(Named("model", "robot", <<Named("link", "a", children)>>))
        DocUris == {<<"model:", "/", "/", "x", "/", "y">>, <<"file:", "/", "/", "/", "x">>,
                    <<"file:", "/", "/", "x">>, <<"/", "x">>, <<"x">>}
        GeomTags == {"mesh", "box", "cylinder", "sphere", "capsule", "plane"}
        ShapeElem(tag, uri) ==
            CASE tag = "mesh" -> Node("mesh", <<Leaf("uri", Some(uri))>>)
              [] tag = "box" -> Node("box", <<Leaf("size", Some(<<"1", "2", "0.5">>))>>)
              [] tag = "plane" -> Node("plane", <<Leaf("size", Some(<<"1", "2">>))>>)
              [] OTHER -> Node(tag, <<Leaf("radius", Some(<<"2">>))>>)
        GeometryElems ==
            {Node("geometry", [k \in DOMAIN tags |-> ShapeElem(tags[k], uri)]) :
                tags \in SeqsUpTo(GeomTags, MaxChildren), uri \in DocUris}
        GeometryDocs ==
            {OneLink(<<Named(kind, "g", <<g>>)>>) :
                kind \in {"visual", "collision"}, g \in GeometryElems}
        BoxGeometry == Node("geometry", <<ShapeElem("box", <<>>)>>)
        SphereGeometry == Node("geometry", <<ShapeElem("sphere", <<>>)>>)
        GoodInertial == Node("inertial", <<Leaf("mass", Some(<<"2">>))>>)
        LinkChildren ==
            {Named("visual", "v", <<BoxGeometry>>), Named("visual", "w", <<>>),
             Named("collision", "c", <<SphereGeometry>>), Node("collision", <<>>),
             GoodInertial}
        LinkDocs == {OneLink(children) : children \in SeqsUpTo(LinkChildren, MaxChildren)}
        JointElem(n, type, parent, child) ==
            Elem("joint", [a \in {"name", "type"} |-> IF a = "name" THEN n ELSE type], None,
                 <<Leaf("parent", Some(<<parent>>)), Leaf("child", Some(<<child>>)),
                   Node("axis", <<Leaf("xyz", Some(<<"0", "1", "0">>)),
                                  Node("limit", <<Leaf("lower", Some(<<"0">>)),
                                                  Leaf("upper", Some(<<"2">>))>>),
                                  Node("dynamics", <<Leaf("damping", Some(<<"0.5">>))>>)>>)>>)
        ModelChildren ==
            {Named("link", "a", <<Named("visual", "v", <<BoxGeometry>>)>>),
             Named("link", "b", <<GoodInertial>>),
             JointElem("j", "revolute", "a", "b"),
             Named("joint", "k", <<Leaf("child", Some(<<"a">>))>>),
             Elem("pose", [a \in {"degrees"} |-> "true"],
                  Some(<<"1", "2", "0", "0", "0", "90">>), <<>>)}
        ModelDocs ==
            {SdfRoot(Named("model", "robot", children)) :
                children \in SeqsUpTo(ModelChildren, MaxChildren)}
        FieldTexts ==
            {None, Some(<<>>), Some(<<"1">>), Some(<<"abc">>), Some(<<"1", "2", "0.5">>)}
        InertialChildren ==
            {Leaf(tag, text) : tag \in {"mass", "pose"}, text \in FieldTexts}
              \cup {Node("inertia", <<Leaf("ixx", text), Leaf("ixy", Some(<<"2">>))>>) :
                       text \in {None, Some(<<"1">>)}}
        InertialDocs ==
            {OneLink(<<Node("inertial", children)>>) :
                children \in SeqsUpTo(InertialChildren, MaxChildren - 1)}
        TextDocs ==
            {SdfRoot(Named("model", "robot",
                           <<Named("link", "a", <<Named("visual", "v", <<g, m>>)>>), j>>)) :
                g \in {BoxGeometry,
                       Node("geometry", <<Node("mesh", <<Leaf("uri", None)>>)>>),
                       Node("geometry", <<Node("box", <<Leaf("size", Some(<<"abc">>))>>)>>)},
                m \in {Node("material", <<>>),
                       Node("material", <<Leaf("diffuse", Some(<<"1", "0", "0">>))>>),
                       Node("material", <<Leaf("diffuse", None)>>),
                       Node("material", <<Node("pbr", <<Node("metal",
                            <<Leaf("albedo_map", Some(<<"x">>))>>)>>)>>)},
                j \in {JointElem("j", "fixed", "a", "a"),
                       Node("joint", <<Leaf("parent", None)>>),
                       Node("joint", <<Node("axis", <<Node("limit", <<Leaf("lower", None)>>)>>)>>)}}
        EmptyModel == Named("model", "robot", <<>>)
        RootDocs ==
            {[readable |-> r, root |-> root] :
                r \in BOOLEAN,
                root \in {Node("sdf", <<EmptyModel>>), EmptyModel, Node("sdf", <<>>),
                          Node("sdf", <<Node("world", <<EmptyModel>>)>>),
                          Node("model", <<Named("model", "robot", <<Named("link", "a", <<>>)>>)>>)}}
    IN  GeometryDocs \cup LinkDocs \cup ModelDocs \cup InertialDocs \cup TextDocs \cup RootDocs

InitLoad ==
    /\ NoRun
    /\ \E doc \in Docs : fn = Call("parse", [doc |-> doc, model_dir |-> ModelDir])

CallParse ==
    /\ fn.name = "parse"
    /\ ~fn.done
    /\ fn' = [fn EXCEPT !.out = parse(fn.arg.doc, fn.arg.model_dir), !.done = TRUE]
    /\ UNCHANGED runVars

SpecLoad == InitLoad /\ [][CallParse]_vars

-----------------------------------------------------------------------------
(* Properties of the parser *)

Loaded == fn.name = "parse" /\ fn.done /\ ~fn.out.raised
LoadedModel == fn.out.val

\* the geometries attached to the visuals and collisions of a model
GeometriesOf(m) ==
    UNION {{l.visuals[k].geometry[1] : k \in DOMAIN l.visuals}
             \cup {l.collisions[k].geometry[1] : k \in DOMAIN l.collisions} : l \in Range(m.links)}

\* C13: in a loaded Model a populated resolved_path of a Mesh is absolute.
C13_ResolvedPathAbsolute ==
    Loaded => \A g \in GeometriesOf(LoadedModel) :
                 (g.mesh # None /\ g.mesh[1].resolved_path # <<>>)
                    => isabs(g.mesh[1].resolved_path)

\* the number of variants a Geometry has populated
Populated(g) ==
    Cardinality({f \in {"mesh", "box", "cylinder", "sphere", "capsule"} : g[f] # None})

\* C14: every Geometry attached to a Visual or Collision of a loaded Model
\* has exactly one of its five variants populated.
C14_ExactlyOneVariant ==
    Loaded => \A g \in GeometriesOf(LoadedModel) : Populated(g) = 1

\* the model element of the document given to parse, and its elements
DocModel == model_elem(fn.arg.doc.root)[1]
LinkElems == findall(DocModel, "link")
JointElems == findall(DocModel, "joint")
HasGeometry(e) == find(e, "geometry") # None

\* the defaults of the sub-elements a link element leaves out
LinkDefaults(e, l) ==
    /\ find(e, "pose") = None => l.pose = identity
    /\ find(e, "inertial") # None =>
          LET ie == find(e, "inertial")[1]
              in == l.inertial[1]
          IN  /\ find(ie, "mass") = None => in.mass = 0
              /\ find(ie, "pose") = None => in.pose = identity
              /\ find(ie, "inertia") = None =>
                    \A tag \in InertiaTags : in.inertia[tag] = 0
    /\ LET ves == SelectSeq(findall(e, "visual"), HasGeometry)
       IN  \A k \in DOMAIN ves :
              (find(ves[k], "material") # None
                 /\ find(find(ves[k], "material")[1], "diffuse") = None)
              => l.visuals[k].material[1].diffuse = <<800, 800, 800>>

\* C15: the loader raises exactly for an unreadable input or a document
\* whose root is not a model element and has no direct model child; for any
\* other document it returns a Model in which every sub-element left out
\* has its default.
C15_FailsOnlyWithoutModel ==
    (fn.name = "parse" /\ fn.done) =>
        /\ fn.out.raised <=>
              \/ ~fn.arg.doc.readable
              \/ (fn.arg.doc.root.tag # "model" /\ find(fn.arg.doc.root, "model") = None)
        /\ ~fn.out.raised =>
              /\ find(DocModel, "pose") = None => LoadedModel.pose = identity
              /\ \A k \in DOMAIN LinkElems : LinkDefaults(LinkElems[k], LoadedModel.links[k])

\* the names of a sequence of elements or of parsed objects
AttrNames(es, default) == [k \in DOMAIN es |-> get(es[k], "name", default)]
NamesOf(xs) == [k \in DOMAIN xs |-> xs[k].name]

-----------------------------------------------------------------------------
(* physics.py: the axis, the joints and the mass properties *)

InitAxis ==
    /\ NoRun
    /\ \E x, y, z \in {-2000, -1000, 0, 1000, 2000} :   \* in thousandths
          fn = Call("_determine_axis", <<x, y, z>>)

CallDetermineAxis ==
    /\ fn.name = "_determine_axis"
    /\ ~fn.done
    /\ fn' = [fn EXCEPT !.out = determine_axis(fn.arg), !.done = TRUE]
    /\ UNCHANGED runVars

SpecAxis == InitAxis /\ [][CallDetermineAxis]_vars

\* the component of xyz an axis letter names
Component(xyz, letter) ==
    CASE letter = "X" -> abs(xyz[1])
      [] letter = "Y" -> abs(xyz[2])
      [] letter = "Z" -> abs(xyz[3])

\* C18: the emitted axis is X, Y or Z, names a component of maximal absolute
\* value, and among the components that tie for the maximum X comes before Y
\* and Y before Z.
C18_AxisSnapping ==
    (fn.name = "_determine_axis" /\ fn.done) =>
        LET xyz == fn.arg
            IsMax(letter) == \A other \in {"X", "Y", "Z"} :
                                Component(xyz, letter) >= Component(xyz, other)
        IN  /\ fn.out \in {"X", "Y", "Z"}
            /\ IsMax(fn.out)
            /\ fn.out = "Y" => ~IsMax("X")
            /\ fn.out = "Z" => ~IsMax("X") /\ ~IsMax("Y")

\* a tie between Y and Z, of opposite signs, below them X
C18_Witness ==
    /\ fn.name = "_determine_axis"
    /\ fn.done
    /\ fn.arg = <<1000, -2000, 2000>>
    /\ fn.out = "Y"

MaxJoints == 3      \* joints in a model document

\* the documents of SpecPhys, without visuals and collisions:
\*  - joints of every type (the four the builder knows and one it does not)
\*    in every order, named by position;
\*  - one revolute or prismatic joint with every pair of limits out of the
\*    defaults -1e16 and 1e16, 0, -1.571, 1.571, 2e8, 9.999e9 and 1e10, with
\*    and without damping;
\*  - links with every inertial: none, or a mass of 0, 2 or -1 with the
\*    default inertial pose and inertia or with values of their own;
\*  - one joint of every type with and without damping and stiffness;
\*  - one joint of every type whose parent is "world", the name of no link
PhysDocs ==
    LET JointTypes == {"revolute", "prismatic", "fixed", "ball", "screw"}
        JointName(k) == <<"j">> \o [i \in 1..k |-> "a"]
        TypeDocs ==
            {[items |-> <<>>, inertials |-> NoInertials,
              joints |-> [k \in DOMAIN types |->
                            Joint(JointName(k), types[k], LinkName(1), LinkName(NumLinks))]] :
                types \in SeqsUpTo(JointTypes, MaxJoints)}
        Limits == {SdfJointAxis.lower_limit, SdfJointAxis.upper_limit, milli(0),
                   milli(-1571), milli(1571), Num(FALSE, 2, 8), Num(FALSE, 9999, 6),
                   Num(FALSE, 1, 10)}
        LimitDocs ==
            {[items |-> <<>>, inertials |-> NoInertials,
              joints |-> <<JointWith(JointName(1), type, LinkName(1), LinkName(NumLinks),
                                     Pose(1000, 0, 2000, 0, 0, 0),
                                     [SdfJointAxis EXCEPT !.xyz = <<0, -1000, 0>>,
                                                          !.lower_limit = lo,
                                                          !.upper_limit = up,
                                                          !.damping = damping,
                                                          !.stiffness = 1000])>>] :
                type \in {"revolute", "prismatic"}, lo \in Limits, up \in Limits,
                damping \in {0, 500}}
        Inertials ==
            {None} \cup
            {Some(Inertial(mass, pose, inertia)) :
                mass \in {0, 2000, -1000},
                pose \in {identity, Pose(1000, 2000, 0, 0, 0, 90000)},
                inertia \in {SdfInertia,
                             [ixx |-> 1000, ixy |-> 500, ixz |-> 500,
                              iyy |-> 2000, iyz |-> 500, izz |-> 0]}}
        MassDocs ==
            {[items |-> <<>>, joints |-> <<>>, inertials |-> inertials] :
                inertials \in [1..NumLinks -> Inertials]}
        DriveDocs ==
            {[items |-> <<>>, inertials |-> NoInertials,
              joints |-> <<JointWith(JointName(1), type, LinkName(1), LinkName(NumLinks),
                                     identity,
                                     [SdfJointAxis EXCEPT !.damping = damping,
                                                          !.stiffness = stiffness])>>] :
                type \in JointTypes, damping \in {0, 500}, stiffness \in {0, 1000}}
        WorldDocs ==
            {[items |-> <<>>, inertials |-> NoInertials,
              joints |-> <<Joint(JointName(1), type, <<"w", "o", "r", "l", "d">>,
                                 LinkName(NumLinks))>>] :
                type \in JointTypes}
    IN  TypeDocs \cup LimitDocs \cup MassDocs \cup DriveDocs \cup WorldDocs

InitPhys ==
    /\ \E doc \in PhysDocs :
       \E ip \in BOOLEAN :
          Entered(doc, [include_collision |-> TRUE, include_physics |-> ip,
                        merge_fixed_joints |-> FALSE])
    /\ fn = NoFn

\* the steps of convert() on a document without visuals and collisions
NextPhys ==
    \/ CollectMeshes
    \/ BuildInit
    \/ BuildLink
    \/ CreateJoint
    \/ Save

SpecPhys == InitPhys /\ [][NextPhys]_vars

joint_path(joint) == model_path \o "/" \o Str(sanitize_usd_name(joint.name))

\* the joints build() has handed to create_joint so far
Processed ==
    IF pc = "done" THEN DOMAIN model.joints
    ELSE IF pc = "build"
    THEN {k \in DOMAIN model.joints : \A i \in DOMAIN todo : todo[i] # [op |-> "joint", ix |-> k]}
    ELSE {}

\* the joint prims of the stage whose joint is revolute or prismatic
LimitedJoints ==
    {k \in DOMAIN model.joints :
        /\ joint_path(model.joints[k]) \in DOMAIN stage
        /\ model.joints[k].type \in {"revolute", "prismatic"}}

\* C17: an emitted limit of a revolute joint is the stored value converted to
\* degrees, that of a prismatic joint the stored value; a lower or upper limit
\* is omitted exactly when the magnitude of the stored limit is >= 1e10.
C17_LimitConversion ==
    \A k \in LimitedJoints :
        LET joint == model.joints[k]
            prim == stage[joint_path(joint)]
            emitted(stored) == IF joint.type = "revolute" THEN math_degrees(stored)
                               ELSE stored
        IN  /\ prim.lower # None => prim.lower = Some(emitted(joint.axis.lower_limit))
            /\ prim.upper # None => prim.upper = Some(emitted(joint.axis.upper_limit))
            /\ prim.lower = None <=> ~below_1e10(joint.axis.lower_limit)
            /\ prim.upper = None <=> ~below_1e10(joint.axis.upper_limit)

\* the node a joint of a known type yields
MappedType(type) ==
    CASE type = "revolute" -> "RevoluteJoint"
      [] type = "prismatic" -> "PrismaticJoint"
      [] type \in {"fixed", "ball"} -> "FixedJoint"

\* C19: with physics enabled the joints are handed to the builder in
\* document order; a revolute joint yields a rotational joint node, a
\* prismatic joint a translational one, a fixed and a ball joint a rigid one;
\* a joint of another type yields no node, and the joints after it are
\* processed all the same.
C19_JointTypeMapping ==
    opts.include_physics =>
        /\ \A k \in Processed : \A j \in 1..k : j \in Processed
        /\ \A k \in DOMAIN model.joints :
              LET joint == model.joints[k]
              IN  /\ (k \in Processed /\ joint.type \in {"revolute", "prismatic", "fixed", "ball"})
                        => /\ joint_path(joint) \in DOMAIN stage
                           /\ stage[joint_path(joint)].type = MappedType(joint.type)
                  /\ (k \notin Processed \/ joint.type \notin {"revolute", "prismatic", "fixed", "ball"})
                        => joint_path(joint) \notin DOMAIN stage
        /\ pc = "done" => Processed = DOMAIN model.joints

\* a joint of unknown type between a ball joint and a prismatic joint
C19_Witness ==
    /\ pc = "done"
    /\ opts.include_physics
    /\ [k \in DOMAIN model.joints |-> model.joints[k].type] = <<"ball", "screw", "prismatic">>
    /\ stage[joint_path(model.joints[1])].type = "FixedJoint"
    /\ joint_path(model.joints[2]) \notin DOMAIN stage
    /\ stage[joint_path(model.joints[3])].type = "PrismaticJoint"

\* the link prims of the stage
BuiltLinks == {l \in 1..NumLinks : link_path(l) \in DOMAIN stage}

\* C20: a link node carries mass properties if and only if physics is
\* enabled and the link has an inertial with mass > 0; the inertia carried is
\* (ixx, iyy, izz) and the center of mass the position of the inertial pose.
C20_MassProperties ==
    \A l \in BuiltLinks :
        LET prim == stage[link_path(l)]
            in == model.inertials[l]
        IN  /\ prim.mass # None <=>
                  (opts.include_physics /\ in # None /\ in[1].mass > 0)
            /\ "MassAPI" \in prim.apis <=> prim.mass # None
            /\ prim.mass # None =>
                  prim.mass[1] = [mass |-> in[1].mass,
                                  centerOfMass |-> <<in[1].pose.x, in[1].pose.y, in[1].pose.z>>,
                                  diagonalInertia |-> <<in[1].inertia.ixx, in[1].inertia.iyy,
                                                        in[1].inertia.izz>>]

\* a link with mass, off-diagonal terms and an inertial pose of its own
C20_Witness ==
    /\ pc = "done"
    /\ model.inertials[1] # None
    /\ model.inertials[1][1].inertia.ixy = 500
    /\ stage[link_path(1)].mass =
          Some([mass |-> 2000, centerOfMass |-> <<1000, 2000, 0>>,
                diagonalInertia |-> <<1000, 2000, 0>>])

\* the joints of the model that have a prim on the stage
EmittedJoints == {k \in DOMAIN model.joints : joint_path(model.joints[k]) \in DOMAIN stage}

\* C21: a revolute or prismatic joint gets a drive if and only if its damping
\* is > 0; with damping > 0 and stiffness > 0 the drive carries the
\* stiffness, with damping 0 the stiffness is dropped with the drive; a fixed
\* or ball joint gets no drive.
C21_DriveParameters ==
    \A k \in EmittedJoints :
        LET joint == model.joints[k]
            prim == stage[joint_path(joint)]
        IN  /\ joint.type \in {"revolute", "prismatic"} =>
                  /\ prim.drive # None <=> joint.axis.damping > 0
                  /\ "DriveAPI" \in prim.apis <=> joint.axis.damping > 0
                  /\ (joint.axis.damping > 0 /\ joint.axis.stiffness > 0)
                        => prim.drive[1].stiffness = Some(joint.axis.stiffness)
            /\ joint.type \in {"fixed", "ball"} =>
                  prim.drive = None /\ "DriveAPI" \notin prim.apis

-----------------------------------------------------------------------------
(* utils.py: Pose.to_matrix, Pose.from_matrix, Pose.compose *)

\* The angles of the poses given to compose: m * theta + n * pi/2 with
\* theta = atan2(4, 3) = 0.927, whose cosines and sines are exact in 25ths:
\* each angle is held in thousandths of a radian, in (-pi, pi], with 25 times
\* its cosine and its sine. math.cos, math.sin, math.asin and math.atan2 are
\* read off this table.
AngleTable ==
    LET power(m) == CASE m = -2 -> <<-7, -24>>
                      [] m = -1 -> <<15, -20>>
                      [] m = 0 -> <<25, 0>>
                      [] m = 1 -> <<15, 20>>
                      [] m = 2 -> <<-7, 24>>
        turn(v, n) == CASE n = 0 -> v
                        [] n = 1 -> <<-v[2], v[1]>>
                        [] n = 2 -> <<-v[1], -v[2]>>
                        [] n = 3 -> <<v[2], -v[1]>>
        wrap(a) == IF a > PiMilli THEN a - 2 * PiMilli ELSE a
    IN  {[a |-> wrap(m * 927 + n * (PiMilli \div 2)), m |-> m,
          c |-> turn(power(m), n)[1], s |-> turn(power(m), n)[2]] :
            m \in -2..2, n \in 0..3}

\* math.cos and math.sin, times 25
cos(a) == (CHOOSE r \in AngleTable : r.a = a).c
sin(a) == (CHOOSE r \in AngleTable : r.a = a).s

\* a 4x4 homogeneous transform: the rotation R, its entries times 25^3, and
\* the translation t
\* Pose.to_matrix
to_matrix(p) ==
    LET cr == cos(p.roll)
        sr == sin(p.roll)
        cp == cos(p.pitch)
        sp == sin(p.pitch)
        cy == cos(p.yaw)
        sy == sin(p.yaw)
    IN  [R |-> << <<cy * cp * 25, cy * sp * sr - sy * cr * 25, cy * sp * cr + sy * sr * 25>>,
                  <<sy * cp * 25, sy * sp * sr + cy * cr * 25, sy * sp * cr - cy * sr * 25>>,
                  <<-sp * 625, cp * sr * 25, cp * cr * 25>> >>,
         t |-> <<p.x, p.y, p.z>>]

\* Pose.from_matrix: the ZYX Euler angles of R, yaw 0 where cos(pitch) is 0.
\* atan2 of a zero and a negative number is pi or -pi by the sign of the
\* zero; the table holds pi for both
from_matrix_roll_sign_lost(mat) ==
    LET atan2(y, x) == (CHOOSE r \in AngleTable :
                           r.c * y = r.s * x /\ r.c * x + r.s * y > 0).a
        asin(v) == (CHOOSE r \in AngleTable : r.s * 625 = v /\ r.c >= 0).a
        pitch == asin(-mat.R[3][1])
    IN  IF cos(pitch) # 0
        THEN Pose(mat.t[1], mat.t[2], mat.t[3],
                  atan2(mat.R[3][2], mat.R[3][3]), pitch, atan2(mat.R[2][1], mat.R[1][1]))
        ELSE Pose(mat.t[1], mat.t[2], mat.t[3],
                  atan2(mat.R[2][3], mat.R[2][2]), pitch, 0)
from_matrix(mat) ==
    LET atan2(y, x) == (CHOOSE r \in AngleTable :
                           r.c * y = r.s * x /\ r.c * x + r.s * y > 0).a
        asin(v) == (CHOOSE r \in AngleTable : r.s * 625 = v /\ r.c >= 0).a
        pitch == asin(-mat.R[3][1])
    IN  IF cos(pitch) # 0
        THEN Pose(mat.t[1], mat.t[2], mat.t[3],
                  atan2(mat.R[3][2], mat.R[3][3]), pitch, atan2(mat.R[2][1], mat.R[1][1]))
        ELSE Pose(mat.t[1], mat.t[2], mat.t[3],
                  atan2(-mat.R[2][3], mat.R[2][2]), pitch, 0)

\* Pose.compose: from_matrix(parent.to_matrix() @ child.to_matrix())
compose(parent, child) ==
    LET P == to_matrix(parent)
        C == to_matrix(child)
        unit == 25 * 25 * 25
        dot(i, v) == P.R[i][1] * v[1] + P.R[i][2] * v[2] + P.R[i][3] * v[3]
        column(j) == <<C.R[1][j], C.R[2][j], C.R[3][j]>>
    IN  from_matrix([R |-> [i \in 1..3 |-> [j \in 1..3 |-> dot(i, column(j)) \div unit]],
                     t |-> [i \in 1..3 |-> dot(i, C.t) \div unit + P.t[i]]])

\* compose is called with the identity pose and a pose whose angles are
\* 0, +-theta or +-(pi/2 - theta) plus a number of quarter turns, the half
\* turn left out
InitCompose ==
    /\ NoRun
    /\ \E roll, pitch, yaw \in {r.a : r \in {q \in AngleTable : q.m \in -1..1 /\ q.a # PiMilli}} :
       \E x \in {0, 1000} :
       \E z \in {0, -2000} :
          fn = Call("compose", [parent |-> identity,
                                child |-> Pose(x, 500, z, roll, pitch, yaw)])

CallCompose ==
    /\ fn.name = "compose"
    /\ ~fn.done
    /\ fn' = [fn EXCEPT !.out = compose(fn.arg.parent, fn.arg.child), !.done = TRUE]
    /\ UNCHANGED runVars

SpecCompose == InitCompose /\ [][CallCompose]_vars

\* C22: compose(identity, p) returns p's position and p's roll, pitch and
\* yaw, except where cos(pitch) is 0: there the returned yaw is 0 and the
\* returned pose has the matrix of p.
C22_ComposeIdentity ==
    (fn.name = "compose" /\ fn.done) =>
        LET p == fn.arg.child
        IN  /\ <<fn.out.x, fn.out.y, fn.out.z>> = <<p.x, p.y, p.z>>
            /\ IF cos(p.pitch) # 0
               THEN /\ fn.out.roll = p.roll
                    /\ fn.out.pitch = p.pitch
                    /\ fn.out.yaw = p.yaw
               ELSE /\ fn.out.yaw = 0
                    /\ to_matrix(fn.out) = to_matrix(p)

\* C22 as amended: compose(identity, p) returns p's position and a pose of
\* the same rotation matrix as p; it returns p's roll, pitch and yaw where
\* cos(pitch) > 0 (pitch strictly between -pi/2 and pi/2, roll and yaw
\* strictly between -pi and pi), and yaw 0 where cos(pitch) is 0.
C22_ComposeIdentityInRange ==
    (fn.name = "compose" /\ fn.done) =>
        LET p == fn.arg.child
        IN  /\ <<fn.out.x, fn.out.y, fn.out.z>> = <<p.x, p.y, p.z>>
            /\ to_matrix(fn.out) = to_matrix(p)
            /\ cos(p.pitch) > 0 =>
                  /\ fn.out.roll = p.roll
                  /\ fn.out.pitch = p.pitch
                  /\ fn.out.yaw = p.yaw
            /\ cos(p.pitch) = 0 => fn.out.yaw = 0 /\ fn.out.pitch = p.pitch

\* a pose at gimbal lock with a yaw and a roll of its own has been composed
C22_Witness ==
    /\ fn.name = "compose"
    /\ fn.done
    /\ cos(fn.arg.child.pitch) = 0
    /\ fn.arg.child.yaw # 0
    /\ fn.arg.child.roll # fn.arg.child.yaw
    /\ fn.out.yaw = 0
    /\ fn.out.roll # 0

-----------------------------------------------------------------------------
(* cli.py: main() *)

\* lines 117-125: both except clauses exit with 1; without an exception
\* main() falls off its end
exit_status_of_the_run(r) == 0
exit_status(r) == IF r = "returned" THEN 0 ELSE 1

\* the documents of SpecCli: at most one visual or collision of link 1, a
\* fixed and a revolute joint between the two links
CliDoc(cs) ==
    [MeshDoc(cs) EXCEPT !.joints =
        <<Joint(<<"a", "_", "a">>, "fixed", LinkName(1), LinkName(NumLinks)),
          Joint(<<"a", "_", "7">>, "revolute", LinkName(1), LinkName(NumLinks))>>]

\* main() before the simulator is started
MainEntered(args, first) ==
    [name |-> "main", arg |-> args,
     out |-> [simulation_app |-> "none", error |-> "", code |-> None, first |-> first],
     done |-> FALSE]

\* nothing of a conversion exists before convert() is entered
Idle ==
    /\ opts = [include_collision |-> TRUE, include_physics |-> TRUE,
               merge_fixed_joints |-> FALSE]
    /\ pc = "idle"
    /\ queue = <<>>
    /\ converted = 0
    /\ mesh_cache = <<>>
    /\ task = None
    /\ outstanding = 0
    /\ calls = <<>>
    /\ visited = <<>>
    /\ todo = <<>>
    /\ stage = <<>>
    /\ material_cache = <<>>
    /\ mat_log = <<>>
    /\ outfiles = <<>>
    /\ copies = 0
    /\ built = <<>>
    /\ result = "idle"

InitCli ==
    /\ \E cs \in SeqsUpTo(MeshCores, 1) : model = CliDoc(cs)
    /\ Idle
    /\ \E no_physics, no_collision \in BOOLEAN :
          fn = MainEntered([no_physics |-> no_physics, no_collision |-> no_collision,
                            merge_fixed_joints |-> FALSE], None)

\* lines 86-98: the simulator is imported and started; an ImportError is
\* logged and answered with sys.exit(1)
StartSimulationApp ==
    /\ fn.name = "main"
    /\ ~fn.done
    /\ fn.out.simulation_app = "none"
    /\ \E importable \in BOOLEAN :
          fn' = IF importable
                THEN [fn EXCEPT !.out.simulation_app = "open"]
                ELSE [fn EXCEPT !.out.error = "ImportError", !.out.code = Some(1),
                                !.done = TRUE]
    /\ UNCHANGED runVars

\* lines 100-112, converter.py lines 24-43 and 58-59: the converter is
\* constructed from the arguments and convert() entered; the constructor
\* raises FileNotFoundError for a missing input, the parser raises on a
\* document it cannot load
EnterConvert ==
    /\ fn.name = "main"
    /\ ~fn.done
    /\ fn.out.simulation_app = "open"
    /\ pc = "idle"
    /\ opts' = [include_collision |-> ~fn.arg.no_collision,
                include_physics |-> ~fn.arg.no_physics,
                merge_fixed_joints |-> fn.arg.merge_fixed_joints]
    /\ \E outcome \in {"entered", "FileNotFoundError", "ValueError"} :
          IF outcome = "entered"
          THEN pc' = "start" /\ result' = "running" /\ UNCHANGED fn
          ELSE /\ pc' = "done"
               /\ result' = "raised"
               /\ fn' = [fn EXCEPT !.out.error = outcome]
    /\ UNCHANGED <<model, queue, converted, mesh_cache, task, outstanding, calls,
                   visited, todo, stage, material_cache, mat_log, outfiles,
                   copies, built>>

\* usd_builder.py lines 39 and 71-72, converter.py line 120: the output file
\* cannot be created, saved or measured, and the exception leaves convert()
OutputFails ==
    /\ fn.name = "main"
    /\ pc = "build"
    /\ pc' = "done"
    /\ result' = "raised"
    /\ fn' = [fn EXCEPT !.out.error = "OSError"]
    /\ UNCHANGED <<model, opts, queue, converted, mesh_cache, task, outstanding,
                   calls, visited, todo, stage, material_cache, mat_log,
                   outfiles, copies, built>>

\* lines 114-128: convert() has returned or raised; the except clauses exit
\* with 1, the finally clause closes the simulator
ExitMain ==
    /\ fn.name = "main"
    /\ ~fn.done
    /\ pc = "done"
    /\ fn' = [fn EXCEPT !.out.simulation_app = "closed",
                        !.out.code = Some(exit_status(result)),
                        !.done = TRUE]
    /\ UNCHANGED runVars

\* what a finished run leaves behind
Outcome ==
    [stage |-> stage, calls |-> calls, visited |-> visited, outfiles |-> outfiles,
     mesh_cache |-> mesh_cache, converted |-> converted, built |-> built,
     result |-> result, error |-> fn.out.error, code |-> fn.out.code]

\* the command is run a second time on the same document, with the same
\* arguments and --merge-fixed-joints
RunAgain ==
    /\ fn.name = "main"
    /\ fn.done
    /\ fn.out.first = None
    /\ opts' = [include_collision |-> TRUE, include_physics |-> TRUE,
                merge_fixed_joints |-> FALSE]
    /\ pc' = "idle"
    /\ queue' = <<>>
    /\ converted' = 0
    /\ mesh_cache' = <<>>
    /\ task' = None
    /\ outstanding' = 0
    /\ calls' = <<>>
    /\ visited' = <<>>
    /\ todo' = <<>>
    /\ stage' = <<>>
    /\ material_cache' = <<>>
    /\ mat_log' = <<>>
    /\ outfiles' = <<>>
    /\ copies' = 0
    /\ built' = <<>>
    /\ result' = "idle"
    /\ fn' = MainEntered([fn.arg EXCEPT !.merge_fixed_joints = TRUE], Some(Outcome))
    /\ UNCHANGED model

NextCli ==
    \/ StartSimulationApp
    \/ EnterConvert
    \/ Next
    \/ OutputFails
    \/ ExitMain
    \/ RunAgain

SpecCli == InitCli /\ [][NextCli]_vars

\* C23: main() exits with 0 exactly when convert() has returned, and with 1
\* after every fatal error: simulator not importable, input file not found,
\* loader failure, output write failure, or any exception leaving convert().
C23_ExitCode ==
    (fn.name = "main" /\ fn.done) =>
        /\ fn.out.code \in {Some(0), Some(1)}
        /\ fn.out.code = Some(0) <=> result = "returned"
        /\ fn.out.error # "" => fn.out.code = Some(1)
        /\ result = "raised" => fn.out.code = Some(1)

\* a run has ended with 1 after each kind of fatal error, and one with 0
\* although a mesh conversion failed
C23_Witness ==
    /\ fn.name = "main"
    /\ fn.done
    /\ fn.out.first # None
    /\ fn.out.first[1].error = "OSError"
    /\ fn.out.first[1].code = Some(1)
    /\ fn.out.code = Some(0)
    /\ \E i \in DOMAIN calls : ~calls[i].ok

\* the joints of type "fixed" of the model
FixedJoints == {k \in DOMAIN model.joints : model.joints[k].type = "fixed"}

PhysicsApis == {"ArticulationRootAPI", "RigidBodyAPI", "MassAPI", "CollisionAPI", "DriveAPI"}
Unannotated(prim) ==
    /\ prim.apis \cap PhysicsApis = {}
    /\ prim.body = None
    /\ prim.mass = None
    /\ prim.drive = None
    /\ prim.type \notin {"RevoluteJoint", "PrismaticJoint", "FixedJoint"}

\* C25: with physics disabled no prim of the stage carries a physics
\* annotation (articulation root, rigid body, mass, joint, collision),
\* whether or not collision geometry is included.
C25_NoPhysicsAnnotations ==
    ~opts.include_physics => \A path \in DOMAIN stage : Unannotated(stage[path])

\* the prims of the links of the model
LinkPaths == {link_path(l) : l \in 1..NumLinks}

\* C26: the parent and the child reference of every emitted joint designate
\* the prim of a link of the model.
C26_JointReferencesLinks ==
    \A k \in EmittedJoints :
        LET prim == stage[joint_path(model.joints[k])]
        IN  /\ prim.body # None
            /\ \A i \in 1..2 :
                  prim.body[1][i] \in LinkPaths /\ prim.body[1][i] \in DOMAIN stage

\* the box nodes of the stage: <item>/Box for the box items built so far
BoxPaths ==
    {item_path(model.items[i]) \o "/Box" :
        i \in {k \in DOMAIN model.items : model.items[k].geometry.type = "box"}}
        \cap DOMAIN stage

\* C27: the node <item>/Box of a box is of the cube type and carries the
\* dimensions of the box as one scale operation.
C27_BoxIsScaledCube ==
    \A path \in BoxPaths : stage[path].type = "Cube" /\ stage[path].xformOps = 1

-----------------------------------------------------------------------------
(* usd_builder.py, physics.py: the prim paths of the items of a model *)

\* the documents of SpecNames: up to MaxItems visuals and collisions of link
\* 1, each a box or a mesh, named "a-7" or "a_7"; one joint named "ja", "7a"
\* (the name of link 1) or "Looks", or two joints named "ja"
NameDocs ==
    LET cores == [kind : {"visual", "collision"},
                  name : {<<"a", "-", "7">>, <<"a", "_", "7">>},
                  geometry : {Box, Mesh("/m/a.dae")}]
        joint(name) == Joint(name, "revolute", LinkName(1), LinkName(NumLinks))
    IN  {[items |-> [i \in DOMAIN cs |->
                       Item(1, cs[i].kind, cs[i].name, cs[i].geometry, None)],
          joints |-> joints, inertials |-> NoInertials] :
            cs \in SeqsUpTo(cores, MaxItems),
            joints \in {<<joint(<<"j", "a">>)>>, <<joint(LinkName(1))>>,
                        <<joint(<<"L", "o", "o", "k", "s">>)>>,
                        <<joint(<<"j", "a">>), joint(<<"j", "a">>)>>}}

InitNames ==
    /\ \E doc \in NameDocs :
          Entered(doc, [include_collision |-> TRUE, include_physics |-> TRUE,
                        merge_fixed_joints |-> FALSE])
    /\ fn = NoFn

SpecNames == InitNames /\ [][Next]_vars

\* the items of the model that get a node, each with the path of its node:
\* the links, the joints, the scope Looks, the visuals and the collisions
Nodes ==
    {[item |-> <<"link", l>>, path |-> link_path(l)] : l \in 1..NumLinks}
    \cup {[item |-> <<"joint", k>>, path |-> joint_path(model.joints[k])] :
             k \in DOMAIN model.joints}
    \cup {[item |-> <<"Looks", 0>>, path |-> looks_path]}
    \cup {[item |-> <<"item", i>>, path |-> item_path(model.items[i])] :
             i \in DOMAIN model.items}

\* the prims of the stage that were transformed more than once
TransformedTwice == {path \in DOMAIN stage : stage[path].xformOps > 1}

\* C28: no two items of the model that have their node on the stage have the
\* same node path, and no node is transformed twice.
C28_NodePathsUnique ==
    /\ \A x, y \in Nodes :
          (x.item # y.item /\ x.path \in DOMAIN stage) => x.path # y.path
    /\ TransformedTwice = {}

\* the mesh sources convert() has copied the adjacent textures of: those of
\* the finished conversions and of the one awaited
TextureCopiedFor == {calls[i].src : i \in DOMAIN calls} \cup {task[i].src : i \in DOMAIN task}

\* the texture files beside these meshes, each with the path convert() gives
\* its copy in the output directory
TextureCopies ==
    {[src |-> g, dst |-> basename(g)] :
        g \in {h \in Files : /\ ext(basename(h)) \in texture_exts
                             /\ \E m \in TextureCopiedFor : dirname(h) = dirname(m)}}

\* C29: two different mesh sources of the cache have different converted
\* files, and two different texture files have different copies in the
\* output directory.
C29_NoSharedArtifact ==
    /\ \A s1, s2 \in DOMAIN mesh_cache : s1 # s2 => mesh_cache[s1] # mesh_cache[s2]
    /\ \A t1, t2 \in TextureCopies : t1.src # t2.src => t1.dst # t2.dst
====
